---- MODULE Spec2Model ----
(***************************************************************************)
(* TravelAgentic trip-planning orchestration engine.                       *)
(*                                                                         *)
(* Spec      one run of TravelOrchestratorGraph: BaseTravelGraph.run        *)
(*           builds the initial ConversationState and the compiled graph   *)
(*           executes node after node along the edges of _build_graph.     *)
(*           The three search agents launched by                           *)
(*           _parallel_search_coordinator are asyncio tasks that interleave*)
(*           at their only suspension point, the call to the language      *)
(*           model.                                                        *)
(* BookSpec  _book_with_fallback applied to one item, one collaborator call*)
(*           per step.                                                     *)
(*                                                                         *)
(* Values.  Python None / absent key / "" / 0 are all falsy; an absent     *)
(* text or date is "" or 0 here and an absent number is 0.  Prices and     *)
(* budgets are whole dollars; a comparison with budget * 1.2 is written    *)
(* 10 * x > 12 * budget.  Session fields that no modelled handler reads    *)
(* (messages, progress, trip_templates, agent_instructions, execution      *)
(* metadata) are left out.                                                 *)
(***************************************************************************)
EXTENDS Integers, Sequences, FiniteSets, TLC

(***************************************************************************)
(* Bounds of the model                                                     *)
(***************************************************************************)
\* longest raw candidate list a search collaborator returns
MaxRaw == 2

(***************************************************************************)
(* Program constants                                                       *)
(***************************************************************************)
DefaultBudget == 5000
PrimaryAttempts == 3
MaxOptions == 5
MaxAutoActivities == 3
MaxHistory == 10
MaxUiUpdates == 50

Agents == <<"flight_agent", "lodging_agent", "activities_agent">>
AgentSet == {Agents[i] : i \in 1..Len(Agents)}
Categories == {"flights", "hotels", "activities"}
CategoryOf(a) ==
    CASE a = "flight_agent" -> "flights"
      [] a = "lodging_agent" -> "hotels"
      [] a = "activities_agent" -> "activities"
AgentIndex(a) == CHOOSE i \in 1..Len(Agents) : Agents[i] = a

(***************************************************************************)
(* Sequences                                                               *)
(***************************************************************************)
Range(s) == {s[i] : i \in 1..Len(s)}
Take(s, n) == SubSeq(s, 1, IF n < Len(s) THEN n ELSE Len(s))
RECURSIVE SumBy(_, _)
SumBy(s, f) == IF s = <<>> THEN 0 ELSE f[Head(s)] + SumBy(Tail(s), f)
\* list.sort(key=...): stable, ascending in key
RECURSIVE InsertBy(_, _, _)
InsertBy(x, s, key) ==
    IF s = <<>> THEN <<x>>
    ELSE IF key[x] < key[Head(s)] THEN <<x>> \o s
    ELSE <<Head(s)>> \o InsertBy(x, Tail(s), key)
RECURSIVE SortBy(_, _)
SortBy(s, key) ==
    IF s = <<>> THEN <<>>
    ELSE InsertBy(s[Len(s)], SortBy(SubSeq(s, 1, Len(s) - 1), key), key)
\* injective sequences over S of length at most n
SeqsUpTo(S, n) ==
    UNION {{s \in [1..k -> S] : \A i, j \in 1..k : i # j => s[i] # s[j]} : k \in 0..n}

(***************************************************************************)
(* Values                                                                  *)
(***************************************************************************)
\* Optional[List]: None or a list
NoneV == [some |-> FALSE, val |-> <<>>]
Some(s) == [some |-> TRUE, val |-> s]
\* x or []
OrEmpty(x) == IF x.some THEN x.val ELSE <<>>

\* Candidate items a search collaborator can return.  price is the flight's or
\* activity's "price" and the hotel's "total_cost"; named is the presence of
\* "airline" / "name"; date is "arrival_date" / "checkin_date" (0: absent);
\* near holds the hotels whose location contains the activity's location.
FlightCatalog ==
    { [id |-> "F_cheap", named |-> TRUE, price |-> 300, rating |-> 40, date |-> 1,
       shuttle |-> FALSE, airport |-> FALSE, near |-> {}],
      [id |-> "F_dear", named |-> TRUE, price |-> 800, rating |-> 45, date |-> 1,
       shuttle |-> FALSE, airport |-> FALSE, near |-> {}] }
HotelCatalog ==
    { [id |-> "H_cheap", named |-> TRUE, price |-> 300, rating |-> 40, date |-> 0,
       shuttle |-> TRUE, airport |-> TRUE, near |-> {}],
      [id |-> "H_dear", named |-> TRUE, price |-> 700, rating |-> 45, date |-> 1,
       shuttle |-> FALSE, airport |-> FALSE, near |-> {}],
      [id |-> "H_late", named |-> TRUE, price |-> 500, rating |-> 43, date |-> 2,
       shuttle |-> FALSE, airport |-> FALSE, near |-> {}] }
ActivityCatalog ==
    { [id |-> "A_walk", named |-> TRUE, price |-> 100, rating |-> 40, date |-> 0,
       shuttle |-> FALSE, airport |-> FALSE, near |-> {"H_cheap"}],
      [id |-> "A_show", named |-> TRUE, price |-> 200, rating |-> 45, date |-> 0,
       shuttle |-> FALSE, airport |-> FALSE, near |-> {}] }
Catalog(a) ==
    CASE a = "flight_agent" -> FlightCatalog
      [] a = "lodging_agent" -> HotelCatalog
      [] a = "activities_agent" -> ActivityCatalog

(***************************************************************************)
(* Inputs of run(input_data)                                               *)
(***************************************************************************)
AllComponents == [given |-> FALSE, flights |-> TRUE, hotels |-> TRUE, activities |-> TRUE]
BasePreferences ==
    [destination |-> "Paris", origin |-> "NYC", start_date |-> 1, end_date |-> 4,
     travelers |-> 2, budget |-> 1000, payment_method |-> TRUE,
     passport_verified |-> TRUE, components_needed |-> AllComponents]
\* the "flights only" case of test_component_selection.py, whose preferences
\* name no origin
ComponentChoices ==
    { [given |-> TRUE, flights |-> TRUE, hotels |-> FALSE, activities |-> FALSE] }
\* preferences that lack entries the handlers look for
Deviations ==
    {[BasePreferences EXCEPT !.destination = ""],
     [BasePreferences EXCEPT !.origin = ""],
     [BasePreferences EXCEPT !.start_date = 0],
     [BasePreferences EXCEPT !.end_date = 0],
     [BasePreferences EXCEPT !.travelers = 0, !.origin = ""],
     [BasePreferences EXCEPT !.budget = 0]}
\* preferences the safety checkpoint of level 4 objects to
Unsafe ==
    {[BasePreferences EXCEPT !.payment_method = FALSE],
     [BasePreferences EXCEPT !.passport_verified = FALSE]}
\* The requests of the model: the complete preferences at every automation
\* level, and at one level each the deviations from them.  structured: the
\* request carries destination, start_date, end_date, travelers (and budget)
\* at its top level, as main.py builds it from the form fields.
InputData ==
    [automation_level : 1..4, preferences : {BasePreferences}, structured : {FALSE}]
    \cup [automation_level : {3}, preferences : Deviations, structured : {FALSE}]
    \cup [automation_level : {4}, preferences : Unsafe, structured : {FALSE}]
    \cup [automation_level : {3},
          preferences : {[BasePreferences EXCEPT !.components_needed = c,
                                                 !.origin = ""] :
                            c \in ComponentChoices},
          structured : {FALSE}]
    \cup [automation_level : {1},
          preferences : {[BasePreferences EXCEPT !.destination = "", !.origin = ""]},
          structured : {TRUE}]

(***************************************************************************)
(* State                                                                   *)
(***************************************************************************)
VARIABLES
    pc,             \* the graph node about to run ("END": the run is over)
    state,          \* the run's ConversationState
    current_state,  \* self._current_state: "none", "session" or the agent whose
                    \* copy of the state it points to
    ui_sink,        \* the event types handed to the UI collaborator
    clock,          \* time.time()
    uid,            \* the next uuid4
    tasks,          \* the coordinator's asyncio tasks, one per search agent
    rerun,          \* the agent node entered from cart review, while it runs
    booking,        \* _booking_execution's frame while it books the cart
    bk,             \* _book_with_fallback's frame (BookSpec)
    snap,           \* which snapshot's objects the session's entries are, the
                    \* last restore or backtrack and the record of what was
                    \* saved (SnapSpec)
    call            \* a function called on its own: its name, its arguments
                    \* and, once it has returned, its result
vars == <<pc, state, current_state, ui_sink, clock, uid, tasks, rerun, booking, bk, snap, call>>

StatusKeys == AgentSet \cup {"orchestrator"}
RequiredFields == <<"destination", "start_date", "end_date", "travelers", "budget">>

\* the shopping_cart of _create_initial_state: every category a list; none
\* holds the categories whose entry is None
EmptyCart ==
    [flights |-> <<>>, hotels |-> <<>>, activities |-> <<>>, total_cost |-> 0,
     version |-> 0, flight_options |-> <<>>, hotel_options |-> <<>>,
     activity_options |-> <<>>, none |-> {}]
NoParallelSearch ==
    [status |-> "none",
     agents |-> [a \in AgentSet |-> [status |-> "absent", results |-> NoneV, error |-> ""]]]
Pending == [status |-> "pending", method |-> "", attempts |-> 0, suggested_actions |-> <<>>]
\* output_data before _booking_execution has stored a booking_status
NoBookingStatus ==
    [stored |-> FALSE, flights |-> Pending, hotels |-> Pending, activities |-> Pending]

create_initial_state(input_data) ==
    [ messages |-> <<>>,
      current_step |-> "welcome",
      user_preferences |->
          [destination |-> input_data.preferences.destination,
           origin |-> input_data.preferences.origin,
           start_date |-> input_data.preferences.start_date,
           end_date |-> input_data.preferences.end_date,
           travelers |-> input_data.preferences.travelers,
           budget |-> input_data.preferences.budget,
           payment_method |-> input_data.preferences.payment_method,
           passport_verified |-> input_data.preferences.passport_verified,
           components_needed |-> input_data.preferences.components_needed,
           flow_type |-> "", input_type |-> "", questions_generated |-> FALSE],
      automation_level |-> input_data.automation_level,
      agent_communications |-> <<>>,
      agent_status |-> [k \in StatusKeys |-> "absent"],
      shopping_cart |-> EmptyCart,
      cart_version |-> 1,
      cart_dependencies |-> {},
      backtrack_history |-> <<>>,
      context_snapshots |-> <<>>,
      ui_updates |-> <<>>,
      parallel_search |-> NoParallelSearch,
      flight_results |-> NoneV,
      lodging_results |-> NoneV,
      activities_results |-> NoneV,
      filtered_flight_results |-> NoneV,
      filtered_lodging_results |-> NoneV,
      filtered_activities_results |-> NoneV,
      aggregated_results |-> NoneV,
      search_results |-> NoneV,
      input_data |-> input_data,
      output_data |-> [status |-> "", booking_status |-> NoBookingStatus,
                       confirmation_numbers |-> FALSE, itinerary |-> FALSE],
      error |-> "",
      step_count |-> 0 ]

\* preferences.get("budget", 5000)
BudgetOf(prefs) == IF prefs.budget = 0 THEN DefaultBudget ELSE prefs.budget

(***************************************************************************)
(* The session together with what a handler's calls touch besides it       *)
(***************************************************************************)
World == [state |-> state, cur |-> current_state, sink |-> ui_sink,
          clock |-> clock, uid |-> uid]
Becomes(w) ==
    /\ state' = w.state
    /\ current_state' = w.cur
    /\ ui_sink' = w.sink
    /\ clock' = w.clock
    /\ uid' = w.uid

\* list[-50:]
LastN(s, n) == IF Len(s) > n THEN SubSeq(s, Len(s) - n + 1, Len(s)) ELSE s

emit_itinerary_update(w, type) ==
    [w EXCEPT !.sink = @ \cup {type},
              !.state.ui_updates =
                  IF w.cur # "none"
                  THEN LastN(Append(@, [type |-> type, timestamp |-> w.clock]),
                             MaxUiUpdates)
                  ELSE @]

\* the updates of a handler that emits several in a row
RECURSIVE EmitAll(_, _)
EmitAll(w, types) ==
    IF types = <<>> THEN w
    ELSE EmitAll(emit_itinerary_update(w, Head(types)), Tail(types))

create_context_snapshot(w, label, step, count) ==
    [snapshot_id |-> w.uid, timestamp |-> w.clock, label |-> label,
     step_count |-> count, current_step |-> step,
     user_preferences |-> w.state.user_preferences,
     shopping_cart |-> w.state.shopping_cart,
     agent_status |-> w.state.agent_status,
     agent_communications |-> w.state.agent_communications,
     automation_level |-> w.state.automation_level,
     cart_version |-> w.state.cart_version]

\* a save that never evicts; C11 tells it from the save of the code
save_context_snapshot_keeping_all(w, label, step, count) ==
    LET snapshot == create_context_snapshot(w, label, step, count)
    IN  [w EXCEPT
           !.uid = @ + 1,
           !.clock = @ + 1,
           !.state.backtrack_history =
               Append(@, [snapshot_id |-> snapshot.snapshot_id,
                          timestamp |-> snapshot.timestamp,
                          label |-> label, step |-> step]),
           !.state.context_snapshots = Append(@, snapshot)]

\* step and count are the current_step and step_count of the state dict the
\* caller holds (the session, or a search task's copy of it)
save_context_snapshot(w, label, step, count) ==
    LET snapshot == create_context_snapshot(w, label, step, count)
        history == Append(w.state.backtrack_history,
                          [snapshot_id |-> snapshot.snapshot_id,
                           timestamp |-> snapshot.timestamp,
                           label |-> label, step |-> step])
        stored == Append(w.state.context_snapshots, snapshot)
        oldest == Head(history)
    IN  [w EXCEPT
           !.uid = @ + 1,
           !.clock = @ + 1,
           !.state.backtrack_history =
               IF Len(history) > MaxHistory THEN Tail(history) ELSE history,
           !.state.context_snapshots =
               IF Len(history) > MaxHistory
               THEN SelectSeq(stored, LAMBDA x : x.snapshot_id # oldest.snapshot_id)
               ELSE stored]

(***************************************************************************)
(* The compiled graph                                                      *)
(***************************************************************************)
\* workflow.add_edge(node, next); a node without an outgoing edge ends the run
graph_edge(node) ==
    CASE node = "welcome" -> "collect_preferences"
      [] node = "collect_preferences" -> "orchestrator"
      [] node = "orchestrator" -> "parallel_search_coordinator"
      [] node = "parallel_search_coordinator" -> "progressive_filter"
      [] node = "progressive_filter" -> "results_aggregator"
      [] node \in {"present_options", "preselect_options",
                   "auto_select_with_review", "auto_book"} -> "shopping_cart"
      [] node = "booking_execution" -> "itinerary_generation"
      [] node = "itinerary_generation" -> "END"
      [] node \in AgentSet -> "END"

(***************************************************************************)
(* welcome -> collect_preferences -> orchestrator                          *)
(***************************************************************************)
determine_flow_type(input_data) ==
    IF input_data.structured THEN "structured" ELSE "conversational"

NoteMessage(w, step, missing) ==
    [w EXCEPT !.state.messages = Append(@, [step |-> step, missing_fields |-> missing, budget_status |-> ""])]

welcome_user ==
    /\ pc = "welcome"
    /\ LET w0 == [World EXCEPT !.state.user_preferences.flow_type =
                                   determine_flow_type(state.input_data)]
           w1 == emit_itinerary_update(w0, "welcome")
           w2 == NoteMessage(w1, "welcome", <<>>)
           w3 == save_context_snapshot(w2, "welcome_complete",
                                       w2.state.current_step, w2.state.step_count)
       IN  Becomes([w3 EXCEPT !.state.current_step = "collect_preferences",
                              !.state.step_count = @ + 1])
    /\ pc' = graph_edge("welcome")
    /\ UNCHANGED <<tasks, rerun, booking, bk, snap, call>>

\* preferences.update({...input_data.get(field)...}): the form's fields replace
\* the preferences' own
handle_structured_input(prefs) ==
    [prefs EXCEPT !.destination = BasePreferences.destination,
                  !.start_date = BasePreferences.start_date,
                  !.end_date = BasePreferences.end_date,
                  !.travelers = BasePreferences.travelers,
                  !.budget = BasePreferences.budget,
                  !.input_type = "structured"]
\* no message in the request: nothing is extracted
handle_conversational_input(prefs) ==
    [prefs EXCEPT !.input_type = "conversational"]

collect_preferences ==
    /\ pc = "collect_preferences"
    /\ LET prefs == state.user_preferences
           handled == IF prefs.flow_type = "structured"
                      THEN handle_structured_input(prefs)
                      ELSE handle_conversational_input(prefs)
           w0 == [World EXCEPT !.state.user_preferences =
                                   [handled EXCEPT !.questions_generated = TRUE]]
           w1 == emit_itinerary_update(w0, "preferences_collected")
           w2 == save_context_snapshot(w1, "preferences_collected",
                                       w1.state.current_step, w1.state.step_count)
       IN  Becomes([w2 EXCEPT !.state.current_step = "orchestrator",
                              !.state.step_count = @ + 1])
    /\ pc' = graph_edge("collect_preferences")
    /\ UNCHANGED <<tasks, rerun, booking, bk, snap, call>>

\* not preferences.get(field)
FieldMissing(prefs, field) ==
    CASE field = "destination" -> prefs.destination = ""
      [] field = "start_date" -> prefs.start_date = 0
      [] field = "end_date" -> prefs.end_date = 0
      [] field = "travelers" -> prefs.travelers = 0
      [] field = "budget" -> prefs.budget = 0

\* the "missing" list of _validate_planning_requirements, in the order of
\* required_fields
validate_planning_requirements(prefs) ==
    SelectSeq(RequiredFields, LAMBDA f : FieldMissing(prefs, f))

request_missing_information(w, missing) ==
    LET w1 == emit_itinerary_update(w, "missing_information")
        w2 == NoteMessage(w1, "information_request", missing)
    IN  [w2 EXCEPT !.state.current_step = "awaiting_information"]

orchestrator_agent ==
    /\ pc = "orchestrator"
    /\ LET missing == validate_planning_requirements(state.user_preferences)
       IN  IF missing # <<>>
           THEN Becomes(request_missing_information(World, missing))
           ELSE LET w0 == [World EXCEPT !.state.agent_status =
                             [k \in StatusKeys |->
                                 IF k = "orchestrator" THEN "coordinating" ELSE "pending"]]
                    w1 == emit_itinerary_update(w0, "orchestrator_start")
                    w2 == save_context_snapshot(w1, "orchestrator_coordination",
                                                w1.state.current_step, w1.state.step_count)
                    w3 == IF state.automation_level = 4
                          THEN emit_itinerary_update(w2, "automation_mode") ELSE w2
                IN  Becomes([w3 EXCEPT
                        !.state.current_step = "agent_coordination",
                        !.state.step_count = @ + 1,
                        !.state.agent_communications =
                            Append(@, [from |-> "orchestrator", to |-> "all_agents",
                                       context_type |-> "", context |-> ""])])
    \* the edge out of the orchestrator is unconditional
    /\ pc' = graph_edge("orchestrator")
    /\ UNCHANGED <<tasks, rerun, booking, bk, snap, call>>

(***************************************************************************)
(* The search agents                                                       *)
(***************************************************************************)
\* What the language model call of a search agent can do: raise, answer with
\* text that is no JSON (the agent falls back to its mock data), or answer
\* with a list of candidates.
SearchOutcomes(a) ==
    {[kind |-> "raise", items |-> <<>>], [kind |-> "mock", items |-> <<>>]}
    \cup {[kind |-> "json", items |-> l] : l \in SeqsUpTo(Catalog(a), MaxRaw)}

MockIds == <<"M0", "M1", "M2", "M3", "M4">>
generate_mock_flight_data(budget, departure_date) ==
    [i \in 1..5 |->
        [id |-> MockIds[i], named |-> TRUE, price |-> (3 * budget) \div 10 + (i - 1) * 50,
         rating |-> 0, date |-> departure_date, shuttle |-> FALSE, airport |-> FALSE,
         near |-> {}]]
MockHotelRating == <<45, 42, 43, 38, 47>>
generate_mock_hotel_data(budget, context_aware) ==
    [i \in 1..5 |->
        [id |-> MockIds[i], named |-> TRUE,
         price |-> (4 * budget) \div 10 + (i - 1) * 90,
         rating |-> MockHotelRating[i], date |-> 0,
         shuttle |-> context_aware /\ i <= 3, airport |-> i > 3, near |-> {}]]
generate_mock_activities_data(budget) ==
    [i \in 1..5 |->
        [id |-> MockIds[i], named |-> TRUE,
         price |-> (budget * (30 + 12 * (i - 1))) \div 1000,
         rating |-> 40 + (i - 1), date |-> 0, shuttle |-> FALSE, airport |-> FALSE,
         near |-> {}]]

\* sort keys; a rating is in tenths, a price below 100000
ByPrice(items) == [x \in Range(items) |-> x.price]
ByRatingThenPrice(items) == [x \in Range(items) |-> x.price - 100000 * x.rating]
AirportPriority(items) ==
    [x \in Range(items) |->
        0 - (x.rating + (IF x.shuttle THEN 5 ELSE 0) + (IF x.airport THEN 3 ELSE 0))]
HotelProximityPriority(items, hotel) ==
    [x \in Range(items) |-> 0 - (x.rating + (IF hotel \in x.near THEN 3 ELSE 0))]

process_flight_results(raw, automation_level) ==
    LET flights == SortBy(raw, ByPrice(raw))
    IN  IF raw = <<>> THEN <<>>
        ELSE IF automation_level >= 3 THEN <<flights[1]>>
        ELSE Take(flights, MaxOptions)

process_hotel_results(raw, automation_level, flight_context) ==
    LET rated == SortBy(raw, ByRatingThenPrice(raw))
        hotels == IF flight_context # "" THEN SortBy(rated, AirportPriority(rated))
                  ELSE rated
    IN  IF raw = <<>> THEN <<>>
        ELSE IF automation_level >= 3 THEN <<hotels[1]>>
        ELSE Take(hotels, MaxOptions)

process_activities_results(raw, automation_level, hotel_context) ==
    LET rated == SortBy(raw, ByRatingThenPrice(raw))
        activities == IF hotel_context # ""
                      THEN SortBy(rated, HotelProximityPriority(rated, hotel_context))
                      ELSE rated
    IN  IF raw = <<>> THEN <<>>
        ELSE IF automation_level >= 3 THEN Take(activities, MaxAutoActivities)
        ELSE Take(activities, MaxOptions)

\* the most recent matching message, else the item already in the cart, else
\* None (""); the context is named by the item it describes
RECURSIVE LatestContext(_, _, _)
LatestContext(comms, from, type) ==
    IF comms = <<>> THEN ""
    ELSE LET c == comms[Len(comms)]
         IN  IF c.from = from /\ c.context_type = type THEN c.context
             ELSE LatestContext(SubSeq(comms, 1, Len(comms) - 1), from, type)
\* an extraction that falls back on the destination of the request; C32 tells
\* it from the extraction of the code
extract_flight_context_or_destination(st) ==
    LET found == LatestContext(st.agent_communications, "flight_agent", "flight_arrival")
    IN  IF found # "" THEN found
        ELSE IF st.shopping_cart.flights # <<>> THEN st.shopping_cart.flights[1].id
        ELSE st.user_preferences.destination
extract_flight_context(st) ==
    LET found == LatestContext(st.agent_communications, "flight_agent", "flight_arrival")
    IN  IF found # "" THEN found
        ELSE IF st.shopping_cart.flights # <<>> THEN st.shopping_cart.flights[1].id
        ELSE ""
extract_hotel_context(st) ==
    LET found == LatestContext(st.agent_communications, "lodging_agent", "hotel_location")
    IN  IF found # "" THEN found
        ELSE IF st.shopping_cart.hotels # <<>> THEN st.shopping_cart.hotels[1].id
        ELSE ""

\* the top-level entries of the state dict an agent is handed that it assigns:
\* the coordinator hands each task state.copy(), a shallow copy, so these stay
\* in the copy while the nested dicts and lists are the session's own
FrameOf(st) ==
    [current_step |-> st.current_step, step_count |-> st.step_count,
     error |-> st.error, search_results |-> st.search_results]

\* all([...]) over the search data the agent requires
HasSearchData(a, prefs) ==
    CASE a = "flight_agent" ->
            prefs.origin # "" /\ prefs.destination # "" /\ prefs.start_date # 0
      [] a = "lodging_agent" ->
            prefs.destination # "" /\ prefs.start_date # 0 /\ prefs.end_date # 0
      [] a = "activities_agent" ->
            prefs.destination # "" /\ prefs.start_date # 0
SearchEvent(a) ==
    CASE a = "flight_agent" -> "flight_search"
      [] a = "lodging_agent" -> "hotel_search"
      [] a = "activities_agent" -> "activity_search"
MissingDataError(a) ==
    CASE a = "flight_agent" -> "Missing required flight information"
      [] a = "lodging_agent" -> "Missing required hotel information"
      [] a = "activities_agent" -> "Missing required activity information"
SearchFailedError(a) ==
    CASE a = "flight_agent" -> "Flight search failed"
      [] a = "lodging_agent" -> "Hotel search failed"
      [] a = "activities_agent" -> "Activities search failed"

\* An agent from its entry to its call of the language model, or to its early
\* return.  owner is what self._current_state is set to.
agent_begin(w, fr, a, owner) ==
    LET w0 == [w EXCEPT !.cur = owner, !.state.agent_status[a] = "working"]
        ctx == CASE a = "flight_agent" -> ""
                 [] a = "lodging_agent" -> extract_flight_context(w0.state)
                 [] a = "activities_agent" -> extract_hotel_context(w0.state)
        w1 == emit_itinerary_update(w0, SearchEvent(a))
    IN  IF HasSearchData(a, w.state.user_preferences)
        THEN [w |-> w1, fr |-> fr, ctx |-> ctx, returned |-> FALSE]
        ELSE [w |-> emit_itinerary_update(w1, "error"),
              fr |-> [fr EXCEPT !.error = MissingDataError(a)],
              ctx |-> ctx, returned |-> TRUE]

RawResults(a, outcome, prefs, ctx) ==
    IF outcome.kind = "json" THEN outcome.items
    ELSE CASE a = "flight_agent" ->
                generate_mock_flight_data(BudgetOf(prefs), prefs.start_date)
           [] a = "lodging_agent" ->
                generate_mock_hotel_data(BudgetOf(prefs), ctx # "")
           [] a = "activities_agent" ->
                generate_mock_activities_data(BudgetOf(prefs))

calculate_total_cost(cart) ==
    SumBy(cart.flights, ByPrice(cart.flights))
    + SumBy(cart.hotels, ByPrice(cart.hotels))
    + SumBy(cart.activities, ByPrice(cart.activities))

\* the cart after the agent has written its selection (levels 3 and 4) or its
\* options (levels 1 and 2) into it
CartWithResults(cart, a, processed, automation_level) ==
    IF automation_level >= 3
    THEN IF processed = <<>> THEN cart
         ELSE CASE a = "flight_agent" -> [cart EXCEPT !.flights = <<processed[1]>>]
                [] a = "lodging_agent" -> [cart EXCEPT !.hotels = <<processed[1]>>]
                [] a = "activities_agent" -> [cart EXCEPT !.activities = processed]
    ELSE CASE a = "flight_agent" -> [cart EXCEPT !.flight_options = processed]
           [] a = "lodging_agent" -> [cart EXCEPT !.hotel_options = processed]
           [] a = "activities_agent" -> [cart EXCEPT !.activity_options = processed]
ResultEvent(a, processed, automation_level) ==
    IF automation_level >= 3
    THEN IF processed = <<>> THEN ""
         ELSE CASE a = "flight_agent" -> "flight_selected"
                [] a = "lodging_agent" -> "hotel_selected"
                [] a = "activities_agent" -> "activity_selected"
    ELSE CASE a = "flight_agent" -> "flight_results"
           [] a = "lodging_agent" -> "hotel_results"
           [] a = "activities_agent" -> "activity_results"
\* the message an agent leaves for the next one about the item now in the cart
ContextMessage(a, cart) ==
    CASE a = "flight_agent" ->
            IF cart.flights = <<>> THEN <<>>
            ELSE <<[from |-> "flight_agent", to |-> "lodging_agent",
                    context_type |-> "flight_arrival", context |-> cart.flights[1].id]>>
      [] a = "lodging_agent" ->
            IF cart.hotels = <<>> THEN <<>>
            ELSE <<[from |-> "lodging_agent", to |-> "activities_agent",
                    context_type |-> "hotel_location", context |-> cart.hotels[1].id]>>
      [] a = "activities_agent" -> <<>>
CompleteLabel(a) ==
    CASE a = "flight_agent" -> "flight_agent_complete"
      [] a = "lodging_agent" -> "lodging_agent_complete"
      [] a = "activities_agent" -> "activities_agent_complete"

\* an except branch that leaves the agent's status as it was; C7 tells it
\* from the branch of the code
agent_failed_keeping_status(w, fr, a) ==
    [w |-> emit_itinerary_update(w, "error"),
     fr |-> [fr EXCEPT !.error = SearchFailedError(a)]]

\* the except branch of an agent: the search call (or anything after it) raised
agent_failed(w, fr, a) ==
    [w |-> emit_itinerary_update([w EXCEPT !.state.agent_status[a] = "error"], "error"),
     fr |-> [fr EXCEPT !.error = SearchFailedError(a)]]

\* An agent from the answer of the language model to its return.
agent_end(w, fr, a, ctx, outcome) ==
    IF outcome.kind = "raise" THEN agent_failed(w, fr, a)
    ELSE
    LET level == w.state.automation_level
        prefs == w.state.user_preferences
        raw == RawResults(a, outcome, prefs, ctx)
        processed ==
            CASE a = "flight_agent" -> process_flight_results(raw, level)
              [] a = "lodging_agent" -> process_hotel_results(raw, level, ctx)
              [] a = "activities_agent" -> process_activities_results(raw, level, ctx)
        cart1 == CartWithResults(w.state.shopping_cart, a, processed, level)
        event == ResultEvent(a, processed, level)
        w1 == [w EXCEPT !.state.shopping_cart = cart1]
        w2 == IF event # "" THEN emit_itinerary_update(w1, event) ELSE w1
        w3 == [w2 EXCEPT !.state.agent_communications = @ \o ContextMessage(a, cart1)]
        \* the activities agent alone totals the cart
        total == calculate_total_cost(cart1)
        w4 == IF a # "activities_agent" THEN w3
              ELSE LET t == [w3 EXCEPT !.state.shopping_cart.total_cost = total]
                   IN  IF total > BudgetOf(prefs)
                       THEN emit_itinerary_update(t, "budget_warning") ELSE t
        w5 == [w4 EXCEPT !.state.agent_status[a] = "complete"]
        fr1 == [fr EXCEPT !.step_count = @ + 1]
    IN  [w |-> save_context_snapshot(w5, CompleteLabel(a), fr1.current_step, fr1.step_count),
         fr |-> fr1]

(***************************************************************************)
(* parallel_search_coordinator                                             *)
(***************************************************************************)
\* the agents the coordinator creates a task for
LaunchedAgents(prefs) == AgentSet

NoTask == [st |-> "none", ctx |-> "", fr |-> FrameOf(create_initial_state(
               [automation_level |-> 1, preferences |-> BasePreferences,
                structured |-> FALSE])), returned |-> "",
           answer |-> [kind |-> "", empty |-> TRUE]]
\* what is kept of the language model's answer to a task: its kind and
\* whether it left the agent without candidates
AnswerOf(outcome, raw) == [kind |-> outcome.kind, empty |-> raw = <<>>]

\* run_agent_parallel after agent_func has returned its copy of the state.
\* len(result_state.get("search_results", [])) raises TypeError when the entry
\* is None; the except branch then marks the agent and returns the session.
run_agent_parallel(w, fr, a) ==
    LET w1 == [w EXCEPT !.state.parallel_search.agents[a] =
                   [status |-> "completed", results |-> fr.search_results, error |-> ""]]
    IN  IF fr.search_results.some
        THEN [w |-> emit_itinerary_update(w1, "parallel_agent_complete"),
              returned |-> "copy"]
        ELSE [w |-> emit_itinerary_update(
                        [w1 EXCEPT !.state.parallel_search.agents[a].status = "error",
                                   !.state.parallel_search.agents[a].error = "TypeError"],
                        "parallel_agent_error"),
              returned |-> "session"]

\* the coordinator up to its await of asyncio.gather
coordinator_start ==
    /\ pc = "parallel_search_coordinator"
    /\ \A a \in AgentSet : tasks[a].st = "none"
    /\ LET w0 == [World EXCEPT !.state.parallel_search =
                     [status |-> "running",
                      agents |-> [a \in AgentSet |->
                                    [status |-> "started", results |-> NoneV, error |-> ""]]]]
       IN  Becomes(emit_itinerary_update(w0, "parallel_search_start"))
    /\ tasks' = [a \in AgentSet |->
                    IF a \in LaunchedAgents(state.user_preferences)
                    THEN [NoTask EXCEPT !.st = "created"] ELSE NoTask]
    /\ UNCHANGED <<pc, rerun, booking, bk, snap, call>>

\* a task runs from its start to the agent's call of the language model (or to
\* its end when the agent returns early); the event loop starts the tasks in
\* the order of their creation
task_start(a) ==
    /\ pc = "parallel_search_coordinator"
    /\ tasks[a].st = "created"
    /\ \A b \in AgentSet : AgentIndex(b) < AgentIndex(a) => tasks[b].st # "created"
    /\ LET r == agent_begin(World, FrameOf(state), a, a)
           done == run_agent_parallel(r.w, r.fr, a)
       IN  IF r.returned
           THEN /\ Becomes(done.w)
                /\ tasks' = [tasks EXCEPT ![a] = [st |-> "done", ctx |-> r.ctx, fr |-> r.fr,
                                                  returned |-> done.returned,
                                                  answer |-> [kind |-> "early", empty |-> TRUE]]]
           ELSE /\ Becomes(r.w)
                /\ tasks' = [tasks EXCEPT ![a] = [st |-> "llm", ctx |-> r.ctx, fr |-> r.fr,
                                                  returned |-> "",
                                                  answer |-> [kind |-> "", empty |-> TRUE]]]
    /\ UNCHANGED <<pc, rerun, booking, bk, snap, call>>

\* the language model answers and the task runs to its end; the event loop
\* has run every task to its first await before it takes up an answer
task_finish(a) ==
    /\ pc = "parallel_search_coordinator"
    /\ tasks[a].st = "llm"
    /\ \A b \in AgentSet : tasks[b].st # "created"
    /\ \E outcome \in SearchOutcomes(a) :
         LET r == agent_end(World, tasks[a].fr, a, tasks[a].ctx, outcome)
             done == run_agent_parallel(r.w, r.fr, a)
         IN  /\ Becomes(done.w)
             /\ tasks' = [tasks EXCEPT
                            ![a].st = "done", ![a].fr = r.fr,
                            ![a].returned = done.returned,
                            ![a].answer =
                                AnswerOf(outcome,
                                         IF outcome.kind = "raise" THEN <<>>
                                         ELSE RawResults(a, outcome, state.user_preferences,
                                                         tasks[a].ctx))]
    /\ UNCHANGED <<pc, rerun, booking, bk, snap, call>>

\* result.get("search_results", []) of the dict a task returned
TaskResult(st, t) ==
    IF t.returned = "copy" THEN t.fr.search_results ELSE st.search_results

\* a wait that the first task to return ends; C8 tells it from the gather of
\* the code
gather_first_completed(ts) == \E a \in AgentSet : ts[a].st = "done"

\* await asyncio.gather(flight_task, lodging_task, activities_task): every
\* task has returned
gather_complete(ts) == \A a \in AgentSet : ts[a].st \in {"none", "done"}

\* asyncio.gather has every task's result; the coordinator runs to its return
coordinator_join ==
    /\ pc = "parallel_search_coordinator"
    /\ \E a \in AgentSet : tasks[a].st # "none"
    /\ gather_complete(tasks)
    /\ LET w0 == [World EXCEPT
                    !.clock = @ + 1,
                    !.state.parallel_search.status = "completed",
                    !.state.flight_results = TaskResult(state, tasks["flight_agent"]),
                    !.state.lodging_results = TaskResult(state, tasks["lodging_agent"]),
                    !.state.activities_results =
                        TaskResult(state, tasks["activities_agent"])]
       IN  Becomes(emit_itinerary_update(w0, "parallel_search_complete"))
    /\ pc' = graph_edge("parallel_search_coordinator")
    /\ UNCHANGED <<tasks, rerun, booking, bk, snap, call>>

(***************************************************************************)
(* progressive_filter and results_aggregator                               *)
(* The candidates carry none of the optional entries destination_airport,  *)
(* arrival_time, airport_distance_km, priceBreakdown, location, categories,*)
(* duration_hours, stops: the code's defaults for them apply.              *)
(***************************************************************************)
FilterTop == 5
ActivityFilterTop == 10
ComboFlights == 3
ComboHotels == 3
ComboActivities == 5
ComboPick == 3
ComboTop == 5

ByPriceThenRating(items) == [x \in Range(items) |-> 1000 * x.price - x.rating]
ByRating(items) == [x \in Range(items) |-> 0 - x.rating]

\* dict.get(key, default)
Get(x, key, default) == IF key \in DOMAIN x THEN x[key] ELSE default

\* a flight filter that returns every flight within the budget; C25 tells it
\* from the filter of the code
filter_flights_by_preferences_uncapped(flights, prefs, budget) ==
    LET filtered == SelectSeq(flights, LAMBDA f : ~(10 * f.price > 4 * budget))
    IN  SortBy(filtered, ByPriceThenRating(filtered))

filter_flights_by_preferences(flights, prefs, budget) ==
    LET filtered == SelectSeq(flights, LAMBDA f : ~(10 * f.price > 4 * budget))
    IN  Take(SortBy(filtered, ByPriceThenRating(filtered)), FilterTop)

\* priceBreakdown.total, else price.amount, else 0; the hotels the search
\* agents produce carry neither
HotelPrice(hotel) ==
    IF "priceBreakdown" \in DOMAIN hotel THEN hotel.priceBreakdown
    ELSE Get(hotel, "price_amount", 0)
\* times of day are whole numbers hhmm; 0 stands for a flight without
\* arrival_time, 1500 is the check-in time of a hotel that names none
DefaultCheckin == 1500
DefaultAirportDistance == 100
MaxAirportDistance == 50
\* the hotel is not dropped for its distance from the arrival airport
WithinAirportDistance(hotel, best_flight) ==
    ~(/\ Get(best_flight, "destination_airport", "") # ""
      /\ Get(hotel, "airport_distance_km", DefaultAirportDistance) > MaxAirportDistance)
\* hotel["arrival_compatible"] = True, written into the candidate itself
MarkArrival(hotel, best_flight) ==
    IF /\ WithinAirportDistance(hotel, best_flight)
       /\ Get(best_flight, "arrival_time", 0) # 0
       /\ Get(hotel, "checkin_time", DefaultCheckin) < best_flight.arrival_time
    THEN [f \in DOMAIN hotel \cup {"arrival_compatible"} |->
            IF f = "arrival_compatible" THEN TRUE ELSE hotel[f]]
    ELSE hotel
ByDistanceThenRating(items) ==
    [x \in Range(items) |->
        1000 * Get(x, "airport_distance_km", DefaultAirportDistance) - x.rating]

\* the candidate list after the hotel filter has run on it
hotels_after_filter(hotels, flights) ==
    IF hotels = <<>> \/ flights = <<>> THEN hotels
    ELSE [i \in 1..Len(hotels) |-> MarkArrival(hotels[i], flights[1])]

filter_hotels_by_flight_context(hotels, flights, prefs) ==
    IF hotels = <<>> \/ flights = <<>> THEN Take(hotels, FilterTop)
    ELSE LET marked == hotels_after_filter(hotels, flights)
             filtered ==
               SelectSeq(marked,
                         LAMBDA h : /\ WithinAirportDistance(h, flights[1])
                                    /\ ~(100 * HotelPrice(h) > 35 * BudgetOf(prefs)))
         IN  Take(SortBy(filtered, ByDistanceThenRating(filtered)), FilterTop)

\* _calculate_distance(hotel location, activity location) > 20, on whole
\* coordinates; a candidate without location is at (0, 0)
MaxActivityDistance == 20
TooFar(best_hotel, activity) ==
    LET a == Get(best_hotel, "location", [lat |-> 0, lon |-> 0])
        b == Get(activity, "location", [lat |-> 0, lon |-> 0])
    IN  (b.lat - a.lat) * (b.lat - a.lat) + (b.lon - a.lon) * (b.lon - a.lon)
          > MaxActivityDistance * MaxActivityDistance

filter_activities_by_location_context(activities, hotels, prefs) ==
    LET filtered == SelectSeq(activities,
                              LAMBDA x : /\ ~(hotels # <<>> /\ TooFar(hotels[1], x))
                                         /\ ~(100 * x.price > 25 * BudgetOf(prefs)))
    IN  Take(SortBy(filtered, ByRatingThenPrice(filtered)), ActivityFilterTop)

apply_cross_agent_filtering(flight_results, lodging_results, activities_results, st) ==
    LET prefs == st.user_preferences
        flights == filter_flights_by_preferences(flight_results, prefs, BudgetOf(prefs))
        hotels == filter_hotels_by_flight_context(lodging_results, flights, prefs)
    IN  [flights |-> flights, hotels |-> hotels,
         activities |-> filter_activities_by_location_context(
                            activities_results, hotels, prefs)]

progressive_filter ==
    /\ pc = "progressive_filter"
    /\ LET filtered == apply_cross_agent_filtering(
                           OrEmpty(state.flight_results), OrEmpty(state.lodging_results),
                           OrEmpty(state.activities_results), state)
           w0 == [World EXCEPT
                    !.state.filtered_flight_results = Some(filtered.flights),
                    !.state.filtered_lodging_results = Some(filtered.hotels),
                    !.state.filtered_activities_results = Some(filtered.activities)]
       IN  Becomes(emit_itinerary_update(w0, "progressive_filter_complete"))
    /\ pc' = graph_edge("progressive_filter")
    /\ UNCHANGED <<tasks, rerun, booking, bk, snap, call>>

\* priority_score, descending; the scores are compared in units that keep
\* them whole: price in dollars, rating in tenths, distance in km.  A hotel
\* without a price counts as 200, one without airport_distance_km as 50 km.
DefaultHotelPrice == 200
DefaultComboDistance == 50
FlightPriority(items) == [x \in Range(items) |-> 15 * x.price - 400 * x.rating]
ActivityPriority(items) == [x \in Range(items) |-> 2 * x.price - 18 * x.rating]
HotelPriority(items) ==
    [x \in Range(items) |->
        5 * (IF "priceBreakdown" \in DOMAIN x THEN x.priceBreakdown
             ELSE Get(x, "price_amount", DefaultHotelPrice))
        - 60 * x.rating
        + 10 * (IF Get(x, "airport_distance_km", DefaultComboDistance) > 100 THEN 100
                ELSE Get(x, "airport_distance_km", DefaultComboDistance))]
prioritize_flights(flights) == SortBy(flights, FlightPriority(flights))
prioritize_hotels(hotels) == SortBy(hotels, HotelPriority(hotels))
prioritize_activities(activities) == SortBy(activities, ActivityPriority(activities))

\* the square of _calculate_distance(hotel location, activity location)
DistanceSquared(hotel, activity) ==
    LET a == Get(hotel, "location", [lat |-> 0, lon |-> 0])
        b == Get(activity, "location", [lat |-> 0, lon |-> 0])
    IN  (b.lat - a.lat) * (b.lat - a.lat) + (b.lon - a.lon) * (b.lon - a.lon)
MaxComboDistance == 25
\* the activities taken in order while they fit what remains of 20% of the
\* budget, at most n of them
RECURSIVE PickWithin(_, _, _)
PickWithin(items, remaining, n) ==
    IF items = <<>> \/ n = 0 THEN <<>>
    ELSE IF Head(items).price <= remaining
         THEN <<Head(items)>> \o PickWithin(Tail(items), remaining - Head(items).price, n - 1)
         ELSE PickWithin(Tail(items), remaining, n)
\* the activities within 25 km of the hotel, by rating and then by distance
select_best_activities_for_combination(hotel, activities, prefs) ==
    LET nearby == SelectSeq(activities,
                            LAMBDA x : DistanceSquared(hotel, x)
                                         <= MaxComboDistance * MaxComboDistance)
        key == [x \in Range(nearby) |-> DistanceSquared(hotel, x) - 10000 * x.rating]
    IN  PickWithin(SortBy(nearby, key), BudgetOf(prefs) \div 5, ComboPick)

\* compatibility_score in units of 1/(1000 * budget): 0.4 for the airport
\* distance, 0.3 or 0.1 for an arrival before or after check-in when the
\* flight names its arrival_time, 0.3 for what flight and hotel leave of the
\* budget; at most 1.0
calculate_compatibility(flight, hotel, prefs) ==
    LET budget == BudgetOf(prefs)
        d == Get(hotel, "airport_distance_km", DefaultComboDistance)
        distance == 4 * budget * (100 - (IF d > 100 THEN 100 ELSE d))
        arrival == IF Get(flight, "arrival_time", 0) = 0 THEN 0
                   ELSE IF flight.arrival_time \div 100
                             <= Get(hotel, "checkin_time", DefaultCheckin) \div 100
                        THEN 300 * budget ELSE 100 * budget
        efficiency == 300 * (budget - (flight.price + HotelPrice(hotel)))
        score == distance + arrival + efficiency
    IN  IF score > 1000 * budget THEN 1000 * budget ELSE score

\* a generator that pairs every flight with the three first hotels; C23 tells
\* it from the generator of the code
generate_optimal_combinations_of_all_flights(flights, hotels, activities, st) ==
    LET prefs == st.user_preferences
        top_hotels == Take(hotels, ComboHotels)
        top_activities == Take(activities, ComboActivities)
        nh == Len(top_hotels)
        combos == [k \in 1..(Len(flights) * nh) |->
                     LET flight == flights[(k - 1) \div nh + 1]
                         hotel == top_hotels[((k - 1) % nh) + 1]
                         best == select_best_activities_for_combination(
                                     hotel, top_activities, prefs)
                         total == flight.price + HotelPrice(hotel)
                                    + SumBy(best, ByPrice(best))
                     IN  [flight |-> flight.id,
                          hotel |-> hotel.id,
                          activities |-> [i \in 1..Len(best) |-> best[i].id],
                          total_cost |-> total,
                          compatibility_score |->
                              calculate_compatibility(flight, hotel, prefs),
                          budget_remaining |-> BudgetOf(prefs) - total]]
        by_cost == [c \in Range(combos) |-> c.total_cost]
        by_score == [c \in Range(combos) |-> 0 - c.compatibility_score]
    IN  Take(SortBy(SortBy(combos, by_cost), by_score), ComboTop)

\* combinations.sort(key=(compatibility_score, -total_cost), reverse=True): a
\* stable sort by cost, then a stable sort by score
generate_optimal_combinations(flights, hotels, activities, st) ==
    LET prefs == st.user_preferences
        top_flights == Take(flights, ComboFlights)
        top_hotels == Take(hotels, ComboHotels)
        top_activities == Take(activities, ComboActivities)
        nh == Len(top_hotels)
        combos == [k \in 1..(Len(top_flights) * nh) |->
                     LET flight == top_flights[(k - 1) \div nh + 1]
                         hotel == top_hotels[((k - 1) % nh) + 1]
                         best == select_best_activities_for_combination(
                                     hotel, top_activities, prefs)
                         total == flight.price + HotelPrice(hotel)
                                    + SumBy(best, ByPrice(best))
                     IN  [flight |-> flight.id,
                          hotel |-> hotel.id,
                          activities |-> [i \in 1..Len(best) |-> best[i].id],
                          total_cost |-> total,
                          compatibility_score |->
                              calculate_compatibility(flight, hotel, prefs),
                          budget_remaining |-> BudgetOf(prefs) - total]]
        by_cost == [c \in Range(combos) |-> c.total_cost]
        by_score == [c \in Range(combos) |-> 0 - c.compatibility_score]
    IN  Take(SortBy(SortBy(combos, by_cost), by_score), ComboTop)

\* the conditional edge after results_aggregator, with its path map
route_by_automation_level(st) ==
    CASE st.automation_level = 1 -> "present_options"
      [] st.automation_level = 2 -> "preselect_options"
      [] st.automation_level = 3 -> "auto_select_with_review"
      [] st.automation_level = 4 -> "auto_book"
      [] OTHER -> "present_options"

\* the prioritizers sort the filtered lists in place, so the session's
\* filtered results and the combinations both see the prioritized order
results_aggregator ==
    /\ pc = "results_aggregator"
    /\ LET flights == prioritize_flights(OrEmpty(state.filtered_flight_results))
           hotels == prioritize_hotels(OrEmpty(state.filtered_lodging_results))
           activities == prioritize_activities(OrEmpty(state.filtered_activities_results))
           w0 == [World EXCEPT
                    !.state.filtered_flight_results =
                        IF flights = <<>> THEN @ ELSE Some(flights),
                    !.state.filtered_lodging_results =
                        IF hotels = <<>> THEN @ ELSE Some(hotels),
                    !.state.filtered_activities_results =
                        IF activities = <<>> THEN @ ELSE Some(activities),
                    !.state.aggregated_results =
                        Some(generate_optimal_combinations(flights, hotels, activities,
                                                           state))]
       IN  Becomes(emit_itinerary_update(w0, "results_aggregation_complete"))
    /\ pc' = route_by_automation_level(state)
    /\ UNCHANGED <<tasks, rerun, booking, bk, snap, call>>

\* the four automation-level nodes return the state as it is
automation_level_node ==
    /\ pc \in {"present_options", "preselect_options", "auto_select_with_review",
               "auto_book"}
    /\ pc' = graph_edge(pc)
    /\ UNCHANGED <<state, current_state, ui_sink, clock, uid, tasks, rerun, booking, bk, snap, call>>

(***************************************************************************)
(* shopping_cart and the conditional edge after it                         *)
(***************************************************************************)
IncompleteItems(items) == {i \in 1..Len(items) : ~items[i].named \/ items[i].price = 0}
validate_cart_completeness(cart) ==
    LET issues ==
          (IF cart.flights = <<>> THEN {"No flights selected"} ELSE {})
          \cup (IF cart.hotels = <<>> THEN {"No accommodation selected"} ELSE {})
          \cup (IF cart.activities = <<>> THEN {"No activities selected"} ELSE {})
          \cup (IF IncompleteItems(cart.flights) # {}
                THEN {"Flight missing required information"} ELSE {})
          \cup (IF IncompleteItems(cart.hotels) # {}
                THEN {"Hotel missing required information"} ELSE {})
          \cup (IF IncompleteItems(cart.activities) # {}
                THEN {"Activity missing required information"} ELSE {})
          \cup (IF /\ cart.flights # <<>> /\ cart.hotels # <<>>
                   /\ cart.flights[1].date # 0 /\ cart.hotels[1].date # 0
                   /\ cart.flights[1].date # cart.hotels[1].date
                THEN {"Hotel check-in date doesn't match flight arrival"} ELSE {})
    IN  [valid |-> issues = {}, issues |-> issues,
         item_count |-> Len(cart.flights) + Len(cart.hotels) + Len(cart.activities)]

\* the power of two 2^k with 2^k <= n < 2^(k+1)
RECURSIVE FloorPow2(_)
FloorPow2(n) == IF n < 2 THEN 1 ELSE 2 * FloorPow2(n \div 2)
\* total_cost <= budget * 1.05 in binary64: the double 1.05 is 1.05 + 0.2 * 2^-52,
\* so the product of a whole budget is never rounded below 1.05 * budget
LeqBudgetTimes105(total_cost, budget) == 100 * total_cost <= 105 * budget
\* total_cost <= budget * 1.15 in binary64: the double 1.15 is 1.15 - 0.4 * 2^-52,
\* so when total_cost is exactly 1.15 * budget the product lies 0.4 * 2^-52 *
\* budget below it and is rounded up to it only if that is at most half the
\* spacing 2^(k-52) of the doubles below total_cost, 2^k <= total_cost < 2^(k+1)
LeqBudgetTimes115(total_cost, budget) ==
    IF 100 * total_cost # 115 * budget THEN 100 * total_cost < 115 * budget
    ELSE total_cost = 0 \/ 4 * budget <= 5 * FloorPow2(total_cost)

analyze_budget_compliance(total_cost, budget) ==
    IF total_cost <= budget THEN "within_budget"
    ELSE IF LeqBudgetTimes105(total_cost, budget) THEN "slightly_over"
    ELSE IF LeqBudgetTimes115(total_cost, budget) THEN "moderately_over"
    ELSE "significantly_over"

track_cart_dependencies(cart) ==
    (IF cart.flights # <<>> /\ cart.hotels # <<>>
     THEN {[item |-> cart.hotels[1].id, depends_on |-> cart.flights[1].id,
            relationship |-> "arrival_location"]}
     ELSE {})
    \cup (IF cart.hotels # <<>>
          THEN {[item |-> cart.activities[i].id, depends_on |-> cart.hotels[1].id,
                 relationship |-> "proximity"] : i \in 1..Len(cart.activities)}
          ELSE {})

CartEvent(automation_level) ==
    CASE automation_level = 1 -> "cart_review_required"
      [] automation_level = 2 -> "cart_preselected"
      [] automation_level = 3 -> "cart_auto_selected"
      [] automation_level = 4 -> "cart_auto_booking"
CartStep(automation_level) ==
    CASE automation_level = 1 -> "manual_cart_review"
      [] automation_level = 2 -> "preselected_cart_review"
      [] automation_level = 3 -> "auto_cart_review"
      [] automation_level = 4 -> "auto_booking"
CartLabels == <<"cart_v1", "cart_v2", "cart_v3", "cart_v4", "cart_v5", "cart_v6">>
CartLabel(version) == CartLabels[version]

\* "modify" in current_step, and the category the step names
ModifyTarget(step) ==
    CASE step = "modify_flights" -> "flight_agent"
      [] step = "modify_hotels" -> "lodging_agent"
      [] step = "modify_activities" -> "activities_agent"
      [] OTHER -> ""

\* the node the conditional edge after shopping_cart selects
check_for_changes(st) ==
    LET failed == {a \in AgentSet : st.agent_status[a] = "error"}
        missing == {a \in AgentSet : st.shopping_cart[CategoryOf(a)] = <<>>}
        First(S) == CHOOSE a \in S : \A b \in S : AgentIndex(a) <= AgentIndex(b)
    IN  IF failed # {} THEN First(failed)
        ELSE IF ModifyTarget(st.current_step) # "" THEN ModifyTarget(st.current_step)
        ELSE IF missing # {} THEN First(missing)
        ELSE "booking_execution"
\* the edge schedules a budget warning when it confirms a cart more than 10%
\* over the budget
ConfirmsOverBudget(st) ==
    /\ check_for_changes(st) = "booking_execution"
    /\ 10 * st.shopping_cart.total_cost > 11 * BudgetOf(st.user_preferences)

\* _shopping_cart from its entry to its return
shopping_cart_node(w) ==
    LET w0 == [w EXCEPT !.cur = "session"]
        cart == w.state.shopping_cart
        level == w.state.automation_level
        validation_result == validate_cart_completeness(cart)
        version == (IF cart.version = 0 THEN 1 ELSE cart.version) + 1
        total_cost == calculate_total_cost(cart)
        budget_analysis ==
            analyze_budget_compliance(total_cost, BudgetOf(w.state.user_preferences))
        cart1 == [cart EXCEPT !.version = version, !.total_cost = total_cost]
        w1 == emit_itinerary_update(
                 [w0 EXCEPT !.state.shopping_cart = cart1,
                            !.state.cart_version = version],
                 CartEvent(level))
        w2 == [w1 EXCEPT !.state.current_step = CartStep(level),
                         !.state.cart_dependencies = track_cart_dependencies(cart1)]
        w3 == save_context_snapshot(w2, CartLabel(version), w2.state.current_step,
                                    w2.state.step_count)
        w4 == [w3 EXCEPT !.state.messages =
                  Append(@, [step |-> "shopping_cart", missing_fields |-> <<>>,
                             budget_status |-> budget_analysis])]
        w5 == emit_itinerary_update(w4, "cart_updated")
    IN  IF validation_result.valid
        THEN [w5 EXCEPT !.state.step_count = @ + 1]
        ELSE [emit_itinerary_update(w0, "cart_validation_error")
                 EXCEPT !.state.error = "Cart validation failed"]

shopping_cart ==
    /\ pc = "shopping_cart"
    /\ LET after == shopping_cart_node(World)
       IN  /\ Becomes(IF ConfirmsOverBudget(after.state)
                      THEN emit_itinerary_update(after, "budget_warning") ELSE after)
           /\ pc' = check_for_changes(after.state)
    /\ UNCHANGED <<tasks, rerun, booking, bk, snap, call>>

(***************************************************************************)
(* A search agent entered as a node of its own, from cart review           *)
(***************************************************************************)
MergeFrame(w, fr) ==
    [w EXCEPT !.state.current_step = fr.current_step,
              !.state.step_count = fr.step_count,
              !.state.error = fr.error,
              !.state.search_results = fr.search_results]
Idle == [st |-> "idle", ctx |-> ""]

agent_node_start ==
    /\ pc \in AgentSet
    /\ rerun.st = "idle"
    /\ LET r == agent_begin(World, FrameOf(state), pc, "session")
       IN  /\ Becomes(MergeFrame(r.w, r.fr))
           /\ IF r.returned
              THEN pc' = graph_edge(pc) /\ rerun' = rerun
              ELSE pc' = pc /\ rerun' = [st |-> "llm", ctx |-> r.ctx]
    /\ UNCHANGED <<tasks, booking, bk, snap, call>>

agent_node_finish ==
    /\ pc \in AgentSet
    /\ rerun.st = "llm"
    /\ \E outcome \in SearchOutcomes(pc) :
         LET r == agent_end(World, FrameOf(state), pc, rerun.ctx, outcome)
         IN  Becomes(MergeFrame(r.w, r.fr))
    /\ pc' = graph_edge(pc)
    /\ rerun' = Idle
    /\ UNCHANGED <<tasks, booking, bk, snap, call>>

(***************************************************************************)
(* _book_with_fallback                                                     *)
(***************************************************************************)
Methods == <<"primary_api", "secondary_api", "browser_automation", "voice_calling">>
MethodSet == {Methods[i] : i \in 1..Len(Methods)}
\* what a booking collaborator can do: answer success, answer success = false,
\* or raise
CallOutcomes == {"success", "false", "raise"}

\* the suggestions keyed by the singular names of the categories; C6 tells it
\* from the suggestions of the code
generate_manual_booking_suggestions_by_singular(item_type) ==
    IF item_type \in {"flight", "hotel", "activity"}
    THEN <<"official_website", "phone", "agent_or_platform", "alternative">>
    ELSE <<>>

generate_manual_booking_suggestions(item_type) ==
    IF item_type \in Categories
    THEN <<"official_website", "phone", "agent_or_platform", "alternative">>
    ELSE <<>>

\* the frame of one _book_with_fallback call: the layer about to be tried, the
\* primary attempts already made, the collaborator calls made so far and, once
\* it has returned, its result
BookFrame(item_type, automation_level) ==
    [item_type |-> item_type, automation_level |-> automation_level,
     layer |-> "primary_api", attempt |-> 0, calls |-> <<>>, result |-> Pending]

\* the order of the layers without the level guard of the voice channel; C4
\* tells it from the order of the code
NextLayer_voice_at_every_level(layer, automation_level) ==
    CASE layer = "primary_api" -> "secondary_api"
      [] layer = "secondary_api" -> "browser_automation"
      [] layer = "browser_automation" -> "voice_calling"
      [] layer = "voice_calling" -> "manual_required"

\* the layer after a layer that did not succeed
NextLayer(layer, automation_level) ==
    CASE layer = "primary_api" -> "secondary_api"
      [] layer = "secondary_api" -> "browser_automation"
      [] layer = "browser_automation" ->
            IF automation_level >= 3 THEN "voice_calling" ELSE "manual_required"
      [] layer = "voice_calling" -> "manual_required"

\* a retry loop that goes on only after a raised error; C5 tells it from the
\* loop of the code
primary_retries_only_after_raise(fr, outcome) ==
    fr.layer = "primary_api" /\ fr.attempt + 1 < PrimaryAttempts /\ outcome = "raise"

\* for attempt in range(3): after an attempt without success, whether raised
\* or answered with success = false, the loop goes on while attempts remain
primary_retries(fr, outcome) ==
    fr.layer = "primary_api" /\ fr.attempt + 1 < PrimaryAttempts

\* one collaborator call of _book_with_fallback and what follows it up to the
\* next call or the return
book_step(fr, outcome) ==
    LET called == [fr EXCEPT !.calls = Append(@, [method |-> fr.layer, outcome |-> outcome])]
        next == NextLayer(fr.layer, fr.automation_level)
    IN  IF outcome = "success"
        THEN [called EXCEPT
                !.layer = "returned",
                !.result = [status |-> "success", method |-> fr.layer,
                            attempts |-> IF fr.layer = "primary_api"
                                         THEN fr.attempt + 1 ELSE 1,
                            suggested_actions |-> <<>>]]
        ELSE IF primary_retries(fr, outcome)
        THEN [called EXCEPT !.attempt = @ + 1]
        ELSE IF next = "manual_required"
        THEN [called EXCEPT
                !.layer = "returned",
                !.result = [status |-> "failed", method |-> "manual_required",
                            attempts |-> 0,
                            suggested_actions |->
                                generate_manual_booking_suggestions(fr.item_type)]]
        ELSE [called EXCEPT !.layer = next]

\* _book_with_fallback run to its return against collaborators that answer
\* every call of a method alike; script gives each method's answer
RECURSIVE book_run(_, _)
book_run(fr, script) ==
    IF fr.layer = "returned" THEN fr ELSE book_run(book_step(fr, script[fr.layer]), script)
\* the scripts of the run: the methods before the k-th fail in one way, the
\* k-th and those after it succeed
BookingScripts ==
    {[m \in MethodSet |->
        IF (CHOOSE i \in 1..Len(Methods) : Methods[i] = m) < k THEN bad ELSE "success"] :
     k \in 1..(Len(Methods) + 1), bad \in {"false", "raise"}}
book_with_fallback(item_type, automation_level, script) ==
    book_run(BookFrame(item_type, automation_level), script)

(***************************************************************************)
(* booking_execution                                                       *)
(***************************************************************************)
\* the checkpoint without its check of the flight price; C2 tells it from the
\* checkpoint of the code
perform_safety_checkpoint_ignoring_flight(st, cart) ==
    LET prefs == st.user_preferences
        budget == BudgetOf(prefs)
        issues ==
          (IF 10 * cart.total_cost > 12 * budget THEN {"over_budget"} ELSE {})
          \cup (IF cart.hotels # <<>> /\ 10 * cart.hotels[1].price > 6 * budget
                THEN {"hotel_cost"} ELSE {})
          \cup (IF ~prefs.payment_method THEN {"payment_method"} ELSE {})
          \cup (IF prefs.destination # "" /\ ~prefs.passport_verified
                THEN {"travel_documents"} ELSE {})
    IN  [approved |-> issues = {}, issues |-> issues]

perform_safety_checkpoint(st, cart) ==
    LET prefs == st.user_preferences
        budget == BudgetOf(prefs)
        issues ==
          (IF 10 * cart.total_cost > 12 * budget THEN {"over_budget"} ELSE {})
          \cup (IF cart.flights # <<>> /\ 10 * cart.flights[1].price > 7 * budget
                THEN {"flight_cost"} ELSE {})
          \cup (IF cart.hotels # <<>> /\ 10 * cart.hotels[1].price > 6 * budget
                THEN {"hotel_cost"} ELSE {})
          \cup (IF ~prefs.payment_method THEN {"payment_method"} ELSE {})
          \cup (IF prefs.destination # "" /\ ~prefs.passport_verified
                THEN {"travel_documents"} ELSE {})
    IN  [approved |-> issues = {}, issues |-> issues]

\* the checkpoint extended to level 3; C3 tells it from the guard of the code
safety_checkpoint_applies_from_level_3(automation_level) == automation_level >= 3

\* if automation_level == 4: the checkpoint is evaluated
safety_checkpoint_applies(automation_level) == automation_level = 4

\* the calls of the booking collaborators an item's booking made
CallsOf(item_type, fr) ==
    [i \in 1..Len(fr.calls) |-> [item_type |-> item_type, method |-> fr.calls[i].method]]
RECURSIVE Flatten(_)
Flatten(ss) == IF ss = <<>> THEN <<>> ELSE Head(ss) \o Flatten(Tail(ss))

booking_execution ==
    /\ pc = "booking_execution"
    /\ LET w0 == [World EXCEPT !.cur = "session"]
           cart == state.shopping_cart
           level == state.automation_level
           safety_check == perform_safety_checkpoint(state, cart)
       IN  IF safety_checkpoint_applies(level) /\ ~safety_check.approved
           THEN /\ Becomes([emit_itinerary_update(w0, "safety_checkpoint_failed")
                               EXCEPT !.state.error = "Safety checkpoint failed"])
                /\ booking' = booking
           ELSE \E script \in BookingScripts :
                  LET book(t) == book_with_fallback(t, level, script)
                      flight == book("flights")
                      hotel == book("hotels")
                      acts == [i \in 1..Len(cart.activities) |-> book("activities")]
                      booking_status ==
                        [stored |-> TRUE,
                         flights |-> IF cart.flights # <<>> THEN flight.result ELSE Pending,
                         hotels |-> IF cart.hotels # <<>> THEN hotel.result ELSE Pending,
                         activities |->
                            IF cart.activities = <<>> THEN Pending
                            ELSE [status |->
                                    IF \A i \in 1..Len(acts) : acts[i].result.status = "success"
                                    THEN "success" ELSE "partial",
                                  method |-> acts[1].result.method,
                                  attempts |-> 0,
                                  suggested_actions |-> acts[1].result.suggested_actions]]
                      all_successful ==
                        \A c \in Categories : cart[c] # <<>> => booking_status[c].status = "success"
                      w1 == EmitAll(w0, <<"booking_progress">>
                                        \o [i \in 1..Cardinality({c \in Categories : cart[c] # <<>>})
                                               |-> "booking_progress"])
                      w2 == emit_itinerary_update(
                               w1, IF all_successful THEN "booking_complete"
                                   ELSE "booking_partial_failure")
                      w3 == [w2 EXCEPT
                               !.state.current_step =
                                   IF all_successful THEN "booking_complete"
                                   ELSE "booking_partial_failure",
                               !.state.output_data.booking_status = booking_status,
                               !.state.output_data.confirmation_numbers = all_successful]
                      w4 == IF ~all_successful /\ level < 4
                            THEN emit_itinerary_update(w3, "manual_intervention_required")
                            ELSE w3
                      w5 == save_context_snapshot(w4, "booking_execution_complete",
                                                  w4.state.current_step, w4.state.step_count)
                  IN  /\ Becomes([w5 EXCEPT !.state.step_count = @ + 1])
                      /\ booking' = booking
                            \o (IF cart.flights # <<>> THEN CallsOf("flights", flight) ELSE <<>>)
                            \o (IF cart.hotels # <<>> THEN CallsOf("hotels", hotel) ELSE <<>>)
                            \o Flatten([i \in 1..Len(acts) |-> CallsOf("activities", acts[i])])
    /\ pc' = graph_edge("booking_execution")
    /\ UNCHANGED <<tasks, rerun, bk, snap, call>>

(***************************************************************************)
(* itinerary_generation                                                    *)
(***************************************************************************)
itinerary_generation ==
    /\ pc = "itinerary_generation"
    /\ LET w0 == [World EXCEPT !.cur = "session"]
           w1 == emit_itinerary_update(w0, "itinerary_generation_start")
           w2 == EmitAll(w1, [i \in 1..4 |-> "itinerary_generation_progress"])
           w3 == emit_itinerary_update(w2, "itinerary_generation_complete")
           w4 == save_context_snapshot([w3 EXCEPT !.state.output_data.itinerary = TRUE],
                                       "itinerary_complete",
                                       w3.state.current_step, w3.state.step_count)
           w5 == NoteMessage(w4, "itinerary_generation", <<>>)
       IN  Becomes([w5 EXCEPT !.state.current_step = "complete",
                              !.state.output_data.status = "completed",
                              !.state.step_count = @ + 1])
    /\ pc' = graph_edge("itinerary_generation")
    /\ UNCHANGED <<tasks, rerun, booking, bk, snap, call>>

(***************************************************************************)
(* Specifications                                                          *)
(***************************************************************************)
NoBook == [BookFrame("flights", 1) EXCEPT !.layer = "idle"]

\* the entries of the session a snapshot holds copies of
SnapshotFields == {"user_preferences", "shopping_cart", "agent_status",
                   "agent_communications"}
\* no entry of the session is an object of a snapshot
NoObject == 0 - 1
NoSnap == [alias |-> [f \in SnapshotFields |-> NoObject],
           last |-> [op |-> "none", id |-> NoObject, found |-> FALSE],
           ops |-> 0,
           saved |-> <<>>,
           restored |-> {},
           pruned |-> FALSE]

\* run(input_data): the state after _create_initial_state, entry point welcome
\* no function is being called on its own
NoCall == [fn |-> "none", args |-> <<>>, returned |-> FALSE, result |-> <<>>,
           after |-> <<>>]

Init ==
    /\ pc = "welcome"
    /\ \E input_data \in InputData : state = create_initial_state(input_data)
    /\ current_state = "none"
    /\ ui_sink = {}
    /\ clock = 0
    /\ uid = 0
    /\ tasks = [a \in AgentSet |-> NoTask]
    /\ rerun = Idle
    /\ booking = <<>>
    /\ bk = NoBook
    /\ snap = NoSnap
    /\ call = NoCall

Next ==
    \/ welcome_user
    \/ collect_preferences
    \/ orchestrator_agent
    \/ coordinator_start
    \/ \E a \in AgentSet : task_start(a)
    \/ \E a \in AgentSet : task_finish(a)
    \/ coordinator_join
    \/ progressive_filter
    \/ results_aggregator
    \/ automation_level_node
    \/ shopping_cart
    \/ agent_node_start
    \/ agent_node_finish
    \/ booking_execution
    \/ itinerary_generation

Spec == Init /\ [][Next]_vars

\* _book_with_fallback called on one item at one automation level
BookInit ==
    /\ pc = "book_with_fallback"
    /\ state = create_initial_state([automation_level |-> 1,
                                     preferences |-> BasePreferences,
                                     structured |-> FALSE])
    /\ current_state = "none"
    /\ ui_sink = {}
    /\ clock = 0
    /\ uid = 0
    /\ tasks = [a \in AgentSet |-> NoTask]
    /\ rerun = Idle
    /\ booking = <<>>
    /\ \E item_type \in Categories, automation_level \in 1..4 :
         bk = BookFrame(item_type, automation_level)
    /\ snap = NoSnap
    /\ call = NoCall

\* the collaborator of the current layer is called and answers
book_call ==
    /\ pc = "book_with_fallback"
    /\ bk.layer \in MethodSet
    /\ \E outcome \in CallOutcomes : bk' = book_step(bk, outcome)
    /\ UNCHANGED <<pc, state, current_state, ui_sink, clock, uid, tasks, rerun, booking, snap, call>>

BookNext == book_call

BookSpec == BookInit /\ [][BookNext]_vars

(***************************************************************************)
(* run(input_data): what the caller gets once the graph has ended          *)
(***************************************************************************)
\* graph.ainvoke has returned the final state: the handlers catch their own
\* exceptions, so run's except branch (success False) is not taken
run(st) ==
    [success |-> TRUE, data |-> st.output_data, step_count |-> st.step_count]

(***************************************************************************)
(* Snapshots: restore, backtrack and the cart's item operations            *)
(***************************************************************************)
HasSnapshot(st, snapshot_id) ==
    \E i \in 1..Len(st.context_snapshots) :
        st.context_snapshots[i].snapshot_id = snapshot_id
SnapshotOf(st, snapshot_id) ==
    st.context_snapshots[CHOOSE i \in 1..Len(st.context_snapshots) :
                             st.context_snapshots[i].snapshot_id = snapshot_id]

\* A snapshot and the session can hold the same dict or list: what a handler
\* then changes in place through the session is changed in the snapshot too.
\* alias[f] is the id of the snapshot whose object the session's entry f is.
SharedObjects(w, alias) ==
    LET Shared(x) ==
            [x EXCEPT
               !.user_preferences =
                   IF alias.user_preferences = x.snapshot_id
                   THEN w.state.user_preferences ELSE @,
               !.shopping_cart =
                   IF alias.shopping_cart = x.snapshot_id
                   THEN w.state.shopping_cart ELSE @,
               !.agent_status =
                   IF alias.agent_status = x.snapshot_id
                   THEN w.state.agent_status ELSE @,
               !.agent_communications =
                   IF alias.agent_communications = x.snapshot_id
                   THEN w.state.agent_communications ELSE @]
    IN  [w EXCEPT !.state.context_snapshots = [i \in DOMAIN @ |-> Shared(@[i])]]

\* a restore that leaves agent_status as it is; C13 tells it from the restore
\* of the code
restore_context_snapshot_leaving_agent_status(w, alias, snapshot_id) ==
    IF ~HasSnapshot(w.state, snapshot_id)
    THEN [w |-> w, alias |-> alias, found |-> FALSE]
    ELSE LET snapshot == SnapshotOf(w.state, snapshot_id)
         IN  [w |-> [w EXCEPT !.state.user_preferences = snapshot.user_preferences,
                              !.state.shopping_cart = snapshot.shopping_cart,
                              !.state.agent_communications = snapshot.agent_communications,
                              !.state.automation_level = snapshot.automation_level,
                              !.state.cart_version = snapshot.cart_version,
                              !.state.current_step = snapshot.current_step,
                              !.state.step_count = snapshot.step_count],
              alias |-> [alias EXCEPT !.user_preferences = snapshot_id,
                                      !.shopping_cart = snapshot_id,
                                      !.agent_communications = snapshot_id],
              found |-> TRUE]

\* a restore that falls back to the newest stored snapshot when the id is
\* absent; C16 tells it from the restore of the code
restore_context_snapshot_falling_back(w, alias, snapshot_id) ==
    LET n == Len(w.state.context_snapshots)
        present == HasSnapshot(w.state, snapshot_id)
    IN  IF ~present /\ n = 0
        THEN [w |-> w, alias |-> alias, found |-> FALSE]
        ELSE LET snapshot == IF present THEN SnapshotOf(w.state, snapshot_id)
                             ELSE w.state.context_snapshots[n]
             IN  [w |-> [w EXCEPT !.state.user_preferences = snapshot.user_preferences,
                                  !.state.shopping_cart = snapshot.shopping_cart,
                                  !.state.agent_status = snapshot.agent_status,
                                  !.state.agent_communications = snapshot.agent_communications,
                                  !.state.automation_level = snapshot.automation_level,
                                  !.state.cart_version = snapshot.cart_version,
                                  !.state.current_step = snapshot.current_step,
                                  !.state.step_count = snapshot.step_count],
                  alias |-> [f \in SnapshotFields |->
                               IF present THEN snapshot_id ELSE snapshot.snapshot_id],
                  found |-> present]

\* state[...] = snapshot[...]: the session's entries become the snapshot's own
\* objects
restore_context_snapshot(w, alias, snapshot_id) ==
    IF ~HasSnapshot(w.state, snapshot_id)
    THEN [w |-> w, alias |-> alias, found |-> FALSE]
    ELSE LET snapshot == SnapshotOf(w.state, snapshot_id)
         IN  [w |-> [w EXCEPT !.state.user_preferences = snapshot.user_preferences,
                              !.state.shopping_cart = snapshot.shopping_cart,
                              !.state.agent_status = snapshot.agent_status,
                              !.state.agent_communications = snapshot.agent_communications,
                              !.state.automation_level = snapshot.automation_level,
                              !.state.cart_version = snapshot.cart_version,
                              !.state.current_step = snapshot.current_step,
                              !.state.step_count = snapshot.step_count],
              alias |-> [f \in SnapshotFields |-> snapshot_id],
              found |-> TRUE]

\* a pruning that leaves the history as it is; C12 tells it from the pruning
\* of the code
clear_forward_progress_keeping_history(w, backtrack_timestamp) ==
    [w EXCEPT
       !.state.context_snapshots =
           SelectSeq(@, LAMBDA x : x.timestamp <= backtrack_timestamp),
       !.state.ui_updates =
           SelectSeq(@, LAMBDA x : x.timestamp <= backtrack_timestamp)]

\* a pruning that also drops what carries the backtrack timestamp itself; C15
\* tells it from the pruning of the code
clear_forward_progress_dropping_equal(w, backtrack_timestamp) ==
    [w EXCEPT
       !.state.context_snapshots =
           SelectSeq(@, LAMBDA x : x.timestamp < backtrack_timestamp),
       !.state.backtrack_history =
           SelectSeq(@, LAMBDA x : x.timestamp < backtrack_timestamp),
       !.state.ui_updates =
           SelectSeq(@, LAMBDA x : x.timestamp < backtrack_timestamp)]

clear_forward_progress(w, backtrack_timestamp) ==
    [w EXCEPT
       !.state.context_snapshots =
           SelectSeq(@, LAMBDA x : x.timestamp <= backtrack_timestamp),
       !.state.backtrack_history =
           SelectSeq(@, LAMBDA x : x.timestamp <= backtrack_timestamp),
       !.state.ui_updates =
           SelectSeq(@, LAMBDA x : x.timestamp <= backtrack_timestamp)]

backtrack_to_point(w, alias, snapshot_id) ==
    LET r == restore_context_snapshot(w, alias, snapshot_id)
    IN  IF ~r.found THEN r
        ELSE LET snapshot == SnapshotOf(r.w.state, snapshot_id)
                 w1 == emit_itinerary_update(r.w, "backtrack_executed")
             IN  [r EXCEPT !.w = clear_forward_progress(w1, snapshot.timestamp)]

\* the first item of the category whose flight_number (flights) or name is
\* item_id; 0 when there is none
ItemIndex(items, item_type, item_id) ==
    LET hits == {i \in 1..Len(items) :
                    items[i].id = item_id /\ (item_type = "flights" \/ items[i].named)}
    IN  IF hits = {} THEN 0 ELSE CHOOSE i \in hits : \A j \in hits : i <= j

\* cart.get("version", 1) + 1
NextCartVersion(cart) == (IF cart.version = 0 THEN 1 ELSE cart.version) + 1

modify_cart_item(w, item_type, item_id, new_item) ==
    LET cart == w.state.shopping_cart
        i == ItemIndex(cart[item_type], item_type, item_id)
        cart1 == IF i = 0 THEN cart ELSE [cart EXCEPT ![item_type][i] = new_item]
        cart2 == [cart1 EXCEPT !.version = NextCartVersion(cart)]
        cart3 == [cart2 EXCEPT !.total_cost = calculate_total_cost(cart2)]
    IN  [w EXCEPT !.state.shopping_cart = cart3,
                  !.state.cart_dependencies = track_cart_dependencies(cart3)]

remove_cart_item(w, item_type, item_id) ==
    LET cart == w.state.shopping_cart
        cart1 == [cart EXCEPT ![item_type] =
                     SelectSeq(@, LAMBDA x : ~(x.id = item_id
                                               /\ (item_type = "flights" \/ x.named)))]
        cart2 == [cart1 EXCEPT !.version = NextCartVersion(cart)]
        cart3 == [cart2 EXCEPT !.total_cost = calculate_total_cost(cart2)]
    IN  [w EXCEPT !.state.shopping_cart = cart3,
                  !.state.cart_dependencies = track_cart_dependencies(cart3)]

\* _create_initial_state, then the first snapshot
initialize_conversation_state(w, input_data) ==
    save_context_snapshot([w EXCEPT !.state = create_initial_state(input_data)],
                          "conversation_start", "welcome", 0)

add_backtrack_point(w, label) ==
    emit_itinerary_update(
        save_context_snapshot(w, label, w.state.current_step, w.state.step_count),
        "backtrack_point")

\* an agent node run from its entry to its return on the session itself
run_agent_node(w, a, outcome) ==
    LET b == agent_begin(w, FrameOf(w.state), a, "session")
        w1 == MergeFrame(b.w, b.fr)
        e == agent_end(w1, FrameOf(w1.state), a, b.ctx, outcome)
    IN  IF b.returned THEN w1 ELSE MergeFrame(e.w, e.fr)

(***************************************************************************)
(* A session after its searches, on which snapshots are saved, restored    *)
(* and backtracked to while handlers go on changing it                     *)
(***************************************************************************)
\* snapshots saved in a session, the first ones included
MaxSaves == 11
\* operations on a session other than saving a snapshot
MaxOps == 3

\* what a snapshot is a copy of
SavedFields(st) == [f \in SnapshotFields |-> st[f]]

MockAnswer == [kind |-> "mock", items |-> <<>>]

\* _initialize_conversation_state on a level 3 request, then the three search
\* agents one after the other, each answered with text that is no JSON
SnapInit ==
    LET input_data == [automation_level |-> 3, preferences |-> BasePreferences,
                       structured |-> FALSE]
        w0 == [state |-> create_initial_state(input_data), cur |-> "none",
               sink |-> {}, clock |-> 0, uid |-> 0]
    IN  \E w1 \in {initialize_conversation_state(w0, input_data)} :
        \E w2 \in {run_agent_node(w1, "flight_agent", MockAnswer)} :
        \E w3 \in {run_agent_node(w2, "lodging_agent", MockAnswer)} :
        \E w4 \in {run_agent_node(w3, "activities_agent", MockAnswer)} :
            /\ pc = "session"
            /\ state = w4.state
            /\ current_state = w4.cur
            /\ ui_sink = w4.sink
            /\ clock = w4.clock
            /\ uid = w4.uid
            /\ tasks = [a \in AgentSet |-> NoTask]
            /\ rerun = Idle
            /\ booking = <<>>
            /\ bk = NoBook
            /\ snap = [NoSnap EXCEPT !.saved =
                           <<SavedFields(w1.state), SavedFields(w2.state),
                             SavedFields(w3.state), SavedFields(w4.state)>>]
            /\ call = NoCall

\* the session after an operation, with what is recorded about the operation
Session(op, snapshot_id, found, alias, w) ==
    /\ Becomes(w)
    /\ snap' = [alias |-> alias,
                last |-> [op |-> op, id |-> snapshot_id, found |-> found],
                ops |-> IF op = "save" THEN snap.ops ELSE snap.ops + 1,
                saved |-> IF w.uid > uid THEN Append(snap.saved, SavedFields(w.state))
                          ELSE snap.saved,
                restored |-> IF op \in {"restore", "backtrack"} /\ found
                             THEN snap.restored \cup {snapshot_id} ELSE snap.restored,
                pruned |-> snap.pruned \/ (op = "backtrack" /\ found)]
    /\ UNCHANGED <<pc, tasks, rerun, booking, bk, call>>

session_add_backtrack_point ==
    /\ pc = "session"
    /\ uid < MaxSaves
    /\ Session("save", uid, TRUE, snap.alias, add_backtrack_point(World, "manual"))

\* the item the cart holds first in a category, and one it does not hold
ItemIds(item_type) ==
    LET items == state.shopping_cart[item_type]
    IN  (IF items = <<>> THEN {} ELSE {items[1].id}) \cup {"absent"}
NewItem(item_type) ==
    CASE item_type = "flights" -> CHOOSE x \in FlightCatalog : x.id = "F_dear"
      [] item_type = "hotels" -> CHOOSE x \in HotelCatalog : x.id = "H_dear"
      [] item_type = "activities" -> CHOOSE x \in ActivityCatalog : x.id = "A_show"

session_modify_cart_item ==
    /\ pc = "session"
    /\ snap.ops < MaxOps
    /\ \E item_type \in {"flights"} : \E item_id \in ItemIds(item_type) :
         Session("modify", NoObject, TRUE, snap.alias,
                 SharedObjects(modify_cart_item(World, item_type, item_id,
                                                NewItem(item_type)), snap.alias))

session_remove_cart_item ==
    /\ pc = "session"
    /\ snap.ops < MaxOps
    /\ \E item_type \in {"activities"} :
       \E item_id \in ItemIds(item_type) \ {"absent"} :
         Session("remove", NoObject, TRUE, snap.alias,
                 SharedObjects(remove_cart_item(World, item_type, item_id), snap.alias))

session_conversational_input ==
    /\ pc = "session"
    /\ snap.ops < MaxOps
    /\ Session("input", NoObject, TRUE, snap.alias,
               SharedObjects([World EXCEPT !.state.user_preferences =
                                  handle_conversational_input(@)], snap.alias))

session_agent_node ==
    /\ pc = "session"
    /\ snap.ops < MaxOps
    /\ uid < MaxSaves
    /\ \E kind \in {"mock", "raise"} :
         Session("agent", NoObject, TRUE, snap.alias,
                 SharedObjects(run_agent_node(World, "flight_agent",
                                              [kind |-> kind, items |-> <<>>]),
                               snap.alias))

\* the ids a caller asks for: the middle entry of the history, the id given
\* last (the newest entry, unless a backtrack has pruned it) and the id before
\* the oldest entry (evicted, or never given)
SnapshotIds ==
    LET h == state.backtrack_history
        n == Len(h)
    IN  {h[i].snapshot_id : i \in {(n + 1) \div 2} \cap (1..n)}
        \cup {uid - 1}
        \cup (IF n > 0 THEN {h[1].snapshot_id - 1} ELSE {})

session_restore ==
    /\ pc = "session"
    /\ snap.ops < MaxOps
    /\ \E snapshot_id \in SnapshotIds :
         LET r == restore_context_snapshot(World, snap.alias, snapshot_id)
         IN  Session("restore", snapshot_id, r.found, r.alias, r.w)

session_backtrack ==
    /\ pc = "session"
    /\ snap.ops < MaxOps
    /\ \E snapshot_id \in SnapshotIds :
         LET r == backtrack_to_point(World, snap.alias, snapshot_id)
         IN  Session("backtrack", snapshot_id, r.found, r.alias, r.w)

SnapNext ==
    \/ session_add_backtrack_point
    \/ session_modify_cart_item
    \/ session_remove_cart_item
    \/ session_conversational_input
    \/ session_agent_node
    \/ session_restore
    \/ session_backtrack

SnapSpec == SnapInit /\ [][SnapNext]_vars

(***************************************************************************)
(* A session whose cart is reviewed, changed, saved, restored and          *)
(* backtracked to                                                          *)
(***************************************************************************)
\* the cart is reviewed: _shopping_cart runs on the session
session_shopping_cart ==
    /\ pc = "session"
    /\ snap.ops < MaxOps
    /\ uid < MaxSaves
    /\ Session("review", NoObject, TRUE, snap.alias,
               SharedObjects(shopping_cart_node(World), snap.alias))

ReviewNext ==
    \/ session_shopping_cart
    \/ session_add_backtrack_point
    \/ session_modify_cart_item
    \/ session_remove_cart_item
    \/ session_restore
    \/ session_backtrack

ReviewSpec == SnapInit /\ [][ReviewNext]_vars

(***************************************************************************)
(* A long session: snapshots are saved until the UI-update list is full,  *)
(* and a backtrack is made                                                 *)
(***************************************************************************)
\* snapshots saved in a long session, the first ones included
MaxLongSaves == 50
\* backtracks made in a long session
MaxBacktracks == 1

long_add_backtrack_point ==
    /\ pc = "session"
    /\ uid < MaxLongSaves
    /\ Session("save", uid, TRUE, snap.alias, add_backtrack_point(World, "manual"))

long_backtrack ==
    /\ pc = "session"
    /\ snap.ops < MaxBacktracks
    /\ \E snapshot_id \in SnapshotIds :
         LET r == backtrack_to_point(World, snap.alias, snapshot_id)
         IN  Session("backtrack", snapshot_id, r.found, r.alias, r.w)

LongNext == long_add_backtrack_point \/ long_backtrack

LongSpec == SnapInit /\ [][LongNext]_vars

(***************************************************************************)
(* Functions called on their own                                           *)
(***************************************************************************)
\* fn is called with args on a graph that runs nothing else; frame is what the
\* call keeps besides its result while it runs
CallingWith(fn, args, frame) ==
    /\ pc = "call"
    /\ state = create_initial_state([automation_level |-> 1,
                                     preferences |-> BasePreferences,
                                     structured |-> FALSE])
    /\ current_state = "none"
    /\ ui_sink = {}
    /\ clock = 0
    /\ uid = 0
    /\ tasks = [a \in AgentSet |-> NoTask]
    /\ rerun = Idle
    /\ booking = <<>>
    /\ bk = NoBook
    /\ snap = NoSnap
    /\ call = [fn |-> fn, args |-> args, returned |-> FALSE, result |-> <<>>,
               after |-> frame]
\* a function of arguments: what is kept are the objects passed to it
Calling(fn, args) == CallingWith(fn, args, args)
\* the call of fn returns result and leaves the objects passed to it as after
ReturnsLeaving(fn, result, after) ==
    /\ pc = "call"
    /\ call.fn = fn
    /\ ~call.returned
    /\ call' = [call EXCEPT !.returned = TRUE, !.result = result, !.after = after]
    /\ UNCHANGED <<pc, state, current_state, ui_sink, clock, uid, tasks, rerun,
                   booking, bk, snap>>
\* the call of fn returns result and writes into none of its arguments
Returns(fn, result) == ReturnsLeaving(fn, result, call.args)

\* _analyze_budget_compliance(total_cost, budget): budgets, and total costs as
\* percentages of them, the thresholds and the stated examples among them
MinPercent == 95
MaxPercent == 125
BudgetChoices == {20, 100, 1000}
TotalChoices(budget) == {(budget * p) \div 100 : p \in MinPercent..MaxPercent}

BudgetInit ==
    \E budget \in BudgetChoices : \E total_cost \in TotalChoices(budget) :
        Calling("analyze_budget_compliance", <<total_cost, budget>>)

analyze_budget_compliance_call ==
    Returns("analyze_budget_compliance",
            analyze_budget_compliance(call.args[1], call.args[2]))

BudgetNext == analyze_budget_compliance_call

BudgetSpec == BudgetInit /\ [][BudgetNext]_vars

\* _apply_cross_agent_filtering called on raw candidate lists: the first n
\* candidates of each kind, n up to MaxCandidates.  The candidates differ in
\* price and rating and in the optional entries the filters read.
MaxCandidates == 15
FlightCandidate(i) ==
    (IF i % 2 = 1 THEN [arrival_time |-> 1600]
     ELSE IF i % 4 = 2 THEN [arrival_time |-> 1200] ELSE <<>>)
    @@ (IF i % 3 # 0 THEN [destination_airport |-> "CDG"] ELSE <<>>)
    @@ [id |-> i, price |-> 100 * (((i * 3) % 5) + 1), rating |-> 30 + i]
\* a hotel's nightly_rate, and the cost of its stay of three nights, which is
\* its total_cost and, if it has them, its priceBreakdown.total or price.amount.
\* Hotels 2k-1 and 2k differ in location and rating only.
HotelCandidate(i) ==
    LET k == (i + 1) \div 2
        nightly_rate == 60 + 30 * (k % 3)
    IN  (IF k % 3 = 1 THEN [priceBreakdown |-> 3 * nightly_rate]
         ELSE IF k % 3 = 2 THEN [price_amount |-> 3 * nightly_rate] ELSE <<>>)
        @@ (IF k % 2 = 1 THEN [airport_distance_km |-> 10 * k] ELSE <<>>)
        @@ (IF k % 2 = 0 THEN [checkin_time |-> 1000 + 100 * k] ELSE <<>>)
        @@ (IF i % 2 = 1 THEN [location |-> [lat |-> 0, lon |-> 10]] ELSE <<>>)
        @@ [id |-> i, nightly_rate |-> nightly_rate, total_cost |-> 3 * nightly_rate,
            rating |-> 30 + i]
ActivityCandidate(i) ==
    (IF i % 4 = 0 THEN [location |-> [lat |-> 24, lon |-> 0]] ELSE <<>>)
    @@ [id |-> i, price |-> 30 * ((i % 7) + 1), rating |-> 30 + (i % 5)]
FilterState == [user_preferences |-> BasePreferences]

FilterInit ==
    \E nf \in 0..MaxCandidates, nh \in 0..MaxCandidates, na \in 0..MaxCandidates :
        Calling("apply_cross_agent_filtering",
                [flight_results |-> [i \in 1..nf |-> FlightCandidate(i)],
                 lodging_results |-> [i \in 1..nh |-> HotelCandidate(i)],
                 activities_results |-> [i \in 1..na |-> ActivityCandidate(i)]])

\* the three candidate lists passed in, once _apply_cross_agent_filtering has returned
results_after_filtering(flight_results, lodging_results, activities_results, st) ==
    [flight_results |-> flight_results,
     lodging_results |->
        hotels_after_filter(
            lodging_results,
            filter_flights_by_preferences(flight_results, st.user_preferences,
                                          BudgetOf(st.user_preferences))),
     activities_results |-> activities_results]

apply_cross_agent_filtering_call ==
    ReturnsLeaving("apply_cross_agent_filtering",
                   apply_cross_agent_filtering(call.args.flight_results,
                                               call.args.lodging_results,
                                               call.args.activities_results, FilterState),
                   results_after_filtering(call.args.flight_results,
                                           call.args.lodging_results,
                                           call.args.activities_results, FilterState))

FilterNext == apply_cross_agent_filtering_call

FilterSpec == FilterInit /\ [][FilterNext]_vars

\* _results_aggregator's work on filtered lists: the first n candidates of
\* each kind, n up to MaxAggregated
MaxAggregated == 8

ComboInit ==
    \E nf \in 0..MaxAggregated, nh \in 0..MaxAggregated, na \in 0..MaxAggregated :
        Calling("results_aggregation",
                [flights |-> [i \in 1..nf |-> FlightCandidate(i)],
                 hotels |-> [i \in 1..nh |-> HotelCandidate(i)],
                 activities |-> [i \in 1..na |-> ActivityCandidate(i)]])

\* aggregated_results: the prioritized lists and the combinations made of them
aggregate_results(flights, hotels, activities, st) ==
    LET pf == prioritize_flights(flights)
        ph == prioritize_hotels(hotels)
        pa == prioritize_activities(activities)
    IN  [flights |-> pf, hotels |-> ph, activities |-> pa,
         combinations |-> generate_optimal_combinations(pf, ph, pa, st)]

\* the prioritizers sort the lists they are given
results_aggregation_call ==
    \E r \in {aggregate_results(call.args.flights, call.args.hotels,
                                call.args.activities, FilterState)} :
        ReturnsLeaving("results_aggregation", r,
                       [flights |-> r.flights, hotels |-> r.hotels,
                        activities |-> r.activities])

ComboNext == results_aggregation_call

ComboSpec == ComboInit /\ [][ComboNext]_vars

(***************************************************************************)
(* The filters and the prioritizers in a row, as progressive_filter and    *)
(* results_aggregator run them, under the budget of the request and under  *)
(* the default budget                                                      *)
(***************************************************************************)
\* priority_score in units of 1/ScoreUnit, which keep it whole: price in
\* dollars, rating in tenths, distance in km.  A candidate without
\* duration_hours, stops, location_score or popularity_score gets the score
\* of the code's defaults for them (10 hours, no stop, 0.5, 0.5); the
\* preferences name no airline, amenity or interest.
ScoreUnit == 300000
flight_priority_score(x) ==
    45 * (2000 - x.price) + 30000 + 60000 + 1200 * x.rating
hotel_priority_score(x) ==
    150 * (500 - (IF "priceBreakdown" \in DOMAIN x THEN x.priceBreakdown
                  ELSE Get(x, "price_amount", DefaultHotelPrice)))
    + 1800 * x.rating
    + 30000
    + 300 * (100 - (IF Get(x, "airport_distance_km", DefaultComboDistance) > 100 THEN 100
                    ELSE Get(x, "airport_distance_km", DefaultComboDistance)))
activity_priority_score(x) ==
    1800 * x.rating + 200 * (300 - x.price) + 15000

\* candidates among which two have the same priority_score at different
\* prices (in the code's floating point too), and one hotel and one activity
\* that only the default budget lets through the filters
MaxRanked == 2
RankedFlights ==
    {[id |-> 1, price |-> 100, rating |-> 17],
     [id |-> 2, price |-> 500, rating |-> 32],
     [id |-> 3, price |-> 300, rating |-> 30]}
RankedHotels ==
    {[id |-> 1, priceBreakdown |-> 100, airport_distance_km |-> 10, rating |-> 40],
     [id |-> 2, priceBreakdown |-> 110, airport_distance_km |-> 5, rating |-> 40],
     [id |-> 3, priceBreakdown |-> 1500, airport_distance_km |-> 40, rating |-> 30]}
RankedActivities ==
    {[id |-> 1, price |-> 10, rating |-> 10],
     [id |-> 2, price |-> 100, rating |-> 20],
     [id |-> 3, price |-> 900, rating |-> 30]}
RankedBudgets == {1000, 0}

RankInit ==
    \E budget \in RankedBudgets :
    \E flights \in SeqsUpTo(RankedFlights, MaxRanked) :
    \E hotels \in SeqsUpTo(RankedHotels, MaxRanked) :
    \E activities \in SeqsUpTo(RankedActivities, MaxRanked) :
        Calling("apply_cross_agent_filtering",
                [budget |-> budget, flight_results |-> flights,
                 lodging_results |-> hotels, activities_results |-> activities])

\* progressive_filter's call of the filters
rank_filter_call ==
    /\ call.fn = "apply_cross_agent_filtering"
    /\ ~call.returned
    /\ LET st == [user_preferences |-> [BasePreferences EXCEPT !.budget = call.args.budget]]
       IN  ReturnsLeaving("apply_cross_agent_filtering",
                          apply_cross_agent_filtering(call.args.flight_results,
                                                      call.args.lodging_results,
                                                      call.args.activities_results, st),
                          call.args)
\* results_aggregator takes up the filtered lists
rank_aggregator_start ==
    /\ pc = "call"
    /\ call.fn = "apply_cross_agent_filtering"
    /\ call.returned
    /\ call' = [fn |-> "prioritize", returned |-> FALSE, result |-> <<>>,
                args |-> [budget |-> call.args.budget, flights |-> call.result.flights,
                          hotels |-> call.result.hotels,
                          activities |-> call.result.activities],
                after |-> <<>>]
    /\ UNCHANGED <<pc, state, current_state, ui_sink, clock, uid, tasks, rerun,
                   booking, bk, snap>>
\* and prioritizes each of them, which sorts the list itself
rank_prioritize_call ==
    /\ call.fn = "prioritize"
    /\ \E r \in {[flights |-> prioritize_flights(call.args.flights),
                  hotels |-> prioritize_hotels(call.args.hotels),
                  activities |-> prioritize_activities(call.args.activities)]} :
           ReturnsLeaving("prioritize", r, r)

RankNext == rank_filter_call \/ rank_aggregator_start \/ rank_prioritize_call

RankSpec == RankInit /\ [][RankNext]_vars

(***************************************************************************)
(* Serialization of a session and its deserialization                      *)
(***************************************************************************)
\* the map m without the keys
Without(m, keys) == [k \in DOMAIN m \ keys |-> m[k]]

RequiredStateFields == {"conversation_id", "automation_level", "current_step",
                        "user_preferences", "shopping_cart", "agent_status"}
RequiredCartFields == {"flights", "hotels", "activities", "total_cost"}

validate_state(st) ==
    /\ RequiredStateFields \subseteq DOMAIN st
    /\ st.automation_level \in {1, 2, 3, 4}
    /\ RequiredCartFields \subseteq DOMAIN st.shopping_cart

\* copy.deepcopy(dict(state)) with execution_time as a float and the envelope
\* _metadata added
serialize_conversation_state(st, now) ==
    ("_metadata" :> [serialized_at |-> now, version |-> "1.0",
                     graph_type |-> "TravelOrchestratorGraph"])
    @@ ("execution_time" :> Get(st, "execution_time", 0))
    @@ st

\* a deserialization that returns the map without validating it; C28 tells it
\* from the deserialization of the code
deserialize_conversation_state_unvalidated(serialized_data) ==
    LET data == Without(serialized_data, {"_metadata"})
    IN  [raised |-> FALSE, state |-> data, data |-> data]

\* the state returned, or the ValueError raised; data is serialized_data after
\* the call, its _metadata deleted
deserialize_conversation_state(serialized_data) ==
    LET data == Without(serialized_data, {"_metadata"})
    IN  IF validate_state(data)
        THEN [raised |-> FALSE, state |-> data, data |-> data]
        ELSE [raised |-> TRUE, state |-> <<>>, data |-> data]

RECURSIVE RunAgents(_, _)
RunAgents(w, agents) ==
    IF agents = <<>> THEN w
    ELSE RunAgents(run_agent_node(w, Head(agents), MockAnswer), Tail(agents))

\* the sessions serialized: a request of each automation level initialized,
\* then none to three of its search agents run; with the conversation_id and
\* execution_time that _create_initial_state gives every session
SerialSessions ==
    { LET input_data == [automation_level |-> level,
                         preferences |-> BasePreferences, structured |-> FALSE]
          w0 == [state |-> create_initial_state(input_data), cur |-> "none",
                 sink |-> {}, clock |-> 0, uid |-> 0]
          w == RunAgents(initialize_conversation_state(w0, input_data),
                         SubSeq(<<"flight_agent", "lodging_agent", "activities_agent">>,
                                1, n))
      IN  [conversation_id |-> "uuid4", execution_time |-> 0] @@ w.state
      : level \in 1..4, n \in 0..3 }

\* what a stored map has become before it is read back: nothing, an
\* automation level outside 1..4, a required field lost, a cart entry lost
Damages ==
    {[kind |-> "none", field |-> "", level |-> 0]}
    \cup [kind : {"automation_level"}, field : {""}, level : {0, 5}]
    \cup [kind : {"field"}, field : RequiredStateFields, level : {0}]
    \cup [kind : {"cart"}, field : RequiredCartFields, level : {0}]
Damaged(serialized_data, damage) ==
    CASE damage.kind = "none" -> serialized_data
      [] damage.kind = "automation_level" ->
            [serialized_data EXCEPT !.automation_level = damage.level]
      [] damage.kind = "field" -> Without(serialized_data, {damage.field})
      [] damage.kind = "cart" ->
            [serialized_data EXCEPT
               !.shopping_cart = Without(@, {damage.field})]

SerialInit ==
    \E st \in SerialSessions :
        Calling("serialize_conversation_state", [state |-> st])

serialize_conversation_state_call ==
    Returns("serialize_conversation_state",
            serialize_conversation_state(call.args.state, clock))

\* the serialized map is read back, as it was written or damaged
deserialize_conversation_state_call ==
    /\ pc = "call"
    /\ call.fn = "serialize_conversation_state"
    /\ call.returned
    /\ \E damage \in Damages :
         LET serialized_data == Damaged(call.result, damage)
             r == deserialize_conversation_state(serialized_data)
         IN  call' = [fn |-> "deserialize_conversation_state",
                      args |-> [serialized_data |-> serialized_data,
                                state |-> call.args.state,
                                damage |-> damage],
                      returned |-> TRUE,
                      result |-> [raised |-> r.raised, state |-> r.state],
                      after |-> [serialized_data |-> r.data,
                                 state |-> call.args.state,
                                 damage |-> damage]]
    /\ UNCHANGED <<pc, state, current_state, ui_sink, clock, uid, tasks, rerun,
                   booking, bk, snap>>

SerialNext == serialize_conversation_state_call \/ deserialize_conversation_state_call

SerialSpec == SerialInit /\ [][SerialNext]_vars

(***************************************************************************)
(* The coordinator's tasks in time: the clock counts seconds, the language *)
(* model takes llm_seconds[a] to answer agent a, and what the tasks        *)
(* compute between their awaits takes no time                              *)
(***************************************************************************)
\* the longest answer of the language model, in seconds
MaxSeconds == 3

\* a call of the language model that blocks the event loop until it answers:
\* it starts when the loop is free; C29 tells it from the awaited call of the
\* code
llm_returns_blocking(now, busy_until, seconds) ==
    (IF busy_until > now THEN busy_until ELSE now) + seconds

\* await self.llm.ainvoke(messages): the answer is there after seconds, while
\* the event loop runs the other tasks
llm_returns_at(now, busy_until, seconds) == now + seconds

NoTime == 0 - 1
\* the latest answer awaited by a task
BusyUntil(wake) ==
    LET pending == {wake[a] : a \in AgentSet}
    IN  CHOOSE t \in pending : \A u \in pending : u <= t

TimedInit ==
    \E llm_seconds \in [AgentSet -> 0..MaxSeconds] :
        CallingWith("parallel_search_coordinator", [llm_seconds |-> llm_seconds],
                    [start_time |-> NoTime, completion_time |-> NoTime,
                     wake |-> [a \in AgentSet |-> NoTime]])

\* the coordinator stores start_time, creates its tasks and awaits gather
timed_coordinator_start ==
    /\ pc = "call"
    /\ call.fn = "parallel_search_coordinator"
    /\ call.after.start_time = NoTime
    /\ call' = [call EXCEPT !.after.start_time = clock]
    /\ tasks' = [a \in AgentSet |-> [NoTask EXCEPT !.st = "created"]]
    /\ UNCHANGED <<pc, state, current_state, ui_sink, clock, uid, rerun, booking,
                   bk, snap>>

\* the event loop runs the task to its await of the language model
timed_task_start(a) ==
    /\ pc = "call"
    /\ tasks[a].st = "created"
    /\ \A b \in AgentSet : AgentIndex(b) < AgentIndex(a) => tasks[b].st # "created"
    /\ call' = [call EXCEPT !.after.wake[a] =
                   llm_returns_at(clock, BusyUntil(call.after.wake),
                                  call.args.llm_seconds[a])]
    /\ tasks' = [tasks EXCEPT ![a].st = "llm"]
    /\ UNCHANGED <<pc, state, current_state, ui_sink, clock, uid, rerun, booking,
                   bk, snap>>

\* every task awaits; time passes until the first answer, and its task runs
\* to its end
timed_task_finish(a) ==
    /\ pc = "call"
    /\ tasks[a].st = "llm"
    /\ \A b \in AgentSet :
         /\ tasks[b].st # "created"
         /\ tasks[b].st = "llm" => call.after.wake[a] <= call.after.wake[b]
    /\ clock' = IF call.after.wake[a] > clock THEN call.after.wake[a] ELSE clock
    /\ tasks' = [tasks EXCEPT ![a].st = "done"]
    /\ UNCHANGED <<pc, state, current_state, ui_sink, uid, rerun, booking, bk,
                   snap, call>>

\* gather has every result; the coordinator stores completion_time
timed_coordinator_join ==
    /\ pc = "call"
    /\ call.fn = "parallel_search_coordinator"
    /\ ~call.returned
    /\ \A a \in AgentSet : tasks[a].st = "done"
    /\ call' = [call EXCEPT
                  !.returned = TRUE,
                  !.after.completion_time = clock,
                  !.result = [total_time |-> clock - call.after.start_time]]
    /\ UNCHANGED <<pc, state, current_state, ui_sink, clock, uid, tasks, rerun,
                   booking, bk, snap>>

TimedNext ==
    \/ timed_coordinator_start
    \/ \E a \in AgentSet : timed_task_start(a)
    \/ \E a \in AgentSet : timed_task_finish(a)
    \/ timed_coordinator_join

TimedSpec == TimedInit /\ [][TimedNext]_vars

(***************************************************************************)
(* Two sessions run on one orchestrator: self._current_state is the        *)
(* orchestrator's own, and the nodes of the two runs interleave            *)
(***************************************************************************)
SessionIds == {"A", "B"}
\* the nodes a level 3 run goes through whose cart holds its items after the
\* searches
RunNodes ==
    <<"welcome", "collect_preferences", "orchestrator", "parallel_search_coordinator",
      "shopping_cart", "booking_execution", "itinerary_generation">>
\* the event a node emits before any self._set_current_state(state)
EventBefore(node) ==
    CASE node = "welcome" -> "welcome"
      [] node = "collect_preferences" -> "preferences_collected"
      [] node = "orchestrator" -> "orchestrator_start"
      [] node = "parallel_search_coordinator" -> "parallel_search_start"
      [] OTHER -> ""
\* the first event a node emits once it has called
\* self._set_current_state(state) (within the coordinator, its flight agent)
EventAfter(node) ==
    CASE node = "parallel_search_coordinator" -> "flight_search"
      [] node = "shopping_cart" -> "cart_updated"
      [] node = "booking_execution" -> "booking_progress"
      [] node = "itinerary_generation" -> "itinerary_generation_start"
      [] OTHER -> ""

\* _emit_itinerary_update(update) called by a node of session s: the update
\* is given the conversation_id of self._current_state and appended to the
\* ui_updates of self._current_state, when there is one
emit_on_orchestrator(sessions, cur, s, type) ==
    LET enriched == [type |-> type,
                     conversation_id |-> IF cur # "none" THEN cur ELSE "unknown",
                     emitted_for |-> s]
    IN  IF cur = "none" THEN sessions
        ELSE [sessions EXCEPT ![cur].ui_updates = LastN(Append(@, enriched), MaxUiUpdates)]

PairInit ==
    CallingWith("run", [sessions |-> SessionIds],
                [sessions |-> [s \in SessionIds |->
                                 [conversation_id |-> s, at |-> 1, ui_updates |-> <<>>]]])

\* the next node of session s runs
pair_node(s) ==
    /\ pc = "call"
    /\ call.fn = "run"
    /\ call.after.sessions[s].at <= Len(RunNodes)
    /\ LET node == RunNodes[call.after.sessions[s].at]
           before == IF EventBefore(node) = "" THEN call.after.sessions
                     ELSE emit_on_orchestrator(call.after.sessions, current_state, s,
                                               EventBefore(node))
           cur == IF EventAfter(node) # "" THEN s ELSE current_state
           sessions == IF EventAfter(node) = "" THEN before
                       ELSE emit_on_orchestrator(before, cur, s, EventAfter(node))
       IN  /\ current_state' = cur
           /\ ui_sink' = ui_sink \cup ({EventBefore(node), EventAfter(node)} \ {""})
           /\ call' = [call EXCEPT
                         !.after.sessions = [sessions EXCEPT ![s].at = @ + 1]]
    /\ UNCHANGED <<pc, state, clock, uid, tasks, rerun, booking, bk, snap>>

PairNext == \E s \in SessionIds : pair_node(s)

PairSpec == PairInit /\ [][PairNext]_vars

(***************************************************************************)
(* Properties                                                              *)
(***************************************************************************)
\* the orchestrator has found required preferences missing and asked for them
MissingReported ==
    \E i \in 1..Len(state.messages) :
        /\ state.messages[i].step = "information_request"
        /\ state.messages[i].missing_fields # <<>>
Launched == {a \in AgentSet : tasks[a].st # "none"}
\* _booking_execution has run in this run
BookingExecutionRan ==
    pc = "itinerary_generation" \/ state.output_data.status = "completed"
\* at least one of the five checks of the safety checkpoint fails for the
\* session's cart and preferences
FailsSafetyChecks(st) ==
    LET cart == st.shopping_cart
        budget == BudgetOf(st.user_preferences)
    IN  \/ 10 * cart.total_cost > 12 * budget
        \/ cart.flights # <<>> /\ 10 * cart.flights[1].price > 7 * budget
        \/ cart.hotels # <<>> /\ 10 * cart.hotels[1].price > 6 * budget
        \/ ~st.user_preferences.payment_method
        \/ ~st.user_preferences.passport_verified

\* C1: once the orchestrator has reported missing required preferences, the
\* run does not go on to parallel search: no search task is launched, the
\* cart is not reviewed and nothing is booked.
C1_MissingPreferencesSuspendRun ==
    MissingReported =>
        /\ Launched = {}
        /\ state.parallel_search.status = "none"
        /\ state.cart_version = 1
        /\ booking = <<>>

\* C2: at automation level 4, when booking execution has run on a cart that
\* fails a safety check, no booking method was attempted for any item, no
\* booking status was stored, and the failed checkpoint was reported for
\* manual approval.
C2_FailedCheckpointBlocksBooking ==
    (state.automation_level = 4 /\ BookingExecutionRan /\ FailsSafetyChecks(state)) =>
        /\ booking = <<>>
        /\ ~state.output_data.booking_status.stored
        /\ "safety_checkpoint_failed" \in ui_sink
        /\ state.error = "Safety checkpoint failed"
\* a level 4 cart whose flight costs 80% of a budget of 1000 has been blocked
C2_Witness ==
    /\ state.automation_level = 4
    /\ BookingExecutionRan
    /\ state.user_preferences.budget = 1000
    /\ state.shopping_cart.flights # <<>>
    /\ state.shopping_cart.flights[1].price = 800
    /\ booking = <<>>
    /\ "safety_checkpoint_failed" \in ui_sink

\* C3: at automation levels 1 to 3 the safety checkpoint never reports a
\* failure, and whenever booking execution has run it attempted the bookings
\* and stored their status, whatever the cart and the budget.
C3_NoCheckpointBelowLevel4 ==
    state.automation_level \in 1..3 =>
        /\ "safety_checkpoint_failed" \notin ui_sink
        /\ BookingExecutionRan =>
              /\ booking # <<>>
              /\ state.output_data.booking_status.stored
\* a level 3 cart that fails the checks of level 4 has been booked
C3_Witness ==
    /\ state.automation_level = 3
    /\ BookingExecutionRan
    /\ FailsSafetyChecks(state)
    /\ booking # <<>>
    /\ state.output_data.booking_status.stored

\* the fixed order of the booking methods at an automation level
FixedOrder(automation_level) ==
    <<"primary_api", "primary_api", "primary_api", "secondary_api", "browser_automation">>
    \o (IF automation_level >= 3 THEN <<"voice_calling">> ELSE <<>>)
PrimaryCalls == SelectSeq(bk.calls, LAMBDA c : c.method = "primary_api")
AllCallsFailed == \A i \in 1..Len(bk.calls) : bk.calls[i].outcome # "success"

\* C4: the collaborator calls made for an item are a prefix of the fixed
\* order (three primary attempts, secondary, browser, and voice only from
\* level 3 on); every call but the last one failed; a successful call ends the
\* chain, which reports that call's method; voice is never called at levels 1
\* and 2.
C4_CallsArePrefixOfFixedOrder ==
    LET calls == bk.calls
        order == FixedOrder(bk.automation_level)
    IN  /\ Len(calls) <= Len(order)
        /\ \A i \in 1..Len(calls) : calls[i].method = order[i]
        /\ \A i \in 1..(Len(calls) - 1) : calls[i].outcome # "success"
        /\ (calls # <<>> /\ calls[Len(calls)].outcome = "success") =>
              /\ bk.layer = "returned"
              /\ bk.result.status = "success"
              /\ bk.result.method = calls[Len(calls)].method
        /\ bk.automation_level <= 2 =>
              \A i \in 1..Len(calls) : calls[i].method # "voice_calling"
\* the voice channel succeeded as the sixth call, after five failures
C4_Witness ==
    /\ Len(bk.calls) = 6
    /\ bk.calls[6] = [method |-> "voice_calling", outcome |-> "success"]
    /\ bk.layer = "returned"
    /\ bk.result.method = "voice_calling"

\* C5: the primary API is never called more than three times for an item,
\* and when no primary call succeeded and the secondary API succeeded, the
\* result is success by secondary_api after exactly three primary calls.
C5_SecondaryAfterThreePrimaryAttempts ==
    /\ Len(PrimaryCalls) <= 3
    /\ ( /\ \E i \in 1..Len(bk.calls) :
              bk.calls[i] = [method |-> "secondary_api", outcome |-> "success"]
         /\ \A i \in 1..Len(PrimaryCalls) : PrimaryCalls[i].outcome # "success" )
       => /\ bk.layer = "returned"
          /\ bk.result.status = "success"
          /\ bk.result.method = "secondary_api"
          /\ Len(PrimaryCalls) = 3
\* the secondary API succeeded after primary attempts that failed both ways
C5_Witness ==
    /\ bk.layer = "returned"
    /\ bk.result.method = "secondary_api"
    /\ \E i \in 1..Len(PrimaryCalls) : PrimaryCalls[i].outcome = "raise"
    /\ \E i \in 1..Len(PrimaryCalls) : PrimaryCalls[i].outcome = "false"

\* C6: when the chain has returned and no call succeeded, the result is
\* failed / manual_required with suggested actions; and at every call a
\* raised error and a success = false answer lead to the same continuation.
C6_ExhaustedChainAsksForManualBooking ==
    /\ (bk.layer = "returned" /\ AllCallsFailed) =>
          /\ bk.result.status = "failed"
          /\ bk.result.method = "manual_required"
          /\ bk.result.suggested_actions # <<>>
    /\ bk.layer \in MethodSet =>
          [book_step(bk, "raise") EXCEPT !.calls = bk.calls]
          = [book_step(bk, "false") EXCEPT !.calls = bk.calls]
\* every layer of a level 3 or 4 item failed, some by raising and some by
\* answering success = false
C6_Witness ==
    /\ bk.layer = "returned"
    /\ AllCallsFailed
    /\ Len(bk.calls) = 6
    /\ \E i \in 1..Len(bk.calls) : bk.calls[i].outcome = "raise"
    /\ \E i \in 1..Len(bk.calls) : bk.calls[i].outcome = "false"
    /\ bk.result.method = "manual_required"

\* what a search agent has put into the cart: its selection from level 3 on,
\* its options below
SelectionOf(st, a) ==
    IF st.automation_level >= 3 THEN st.shopping_cart[CategoryOf(a)]
    ELSE CASE a = "flight_agent" -> st.shopping_cart.flight_options
           [] a = "lodging_agent" -> st.shopping_cart.hotel_options
           [] a = "activities_agent" -> st.shopping_cart.activity_options
FailedTasks == {a \in Launched : tasks[a].answer.kind = "raise"}
AnsweredTasks == {a \in Launched : tasks[a].answer.kind \in {"mock", "json"}}

C8_FilterOnlyAfterJoin ==
    /\ pc # "parallel_search_coordinator" => \A a \in Launched : tasks[a].st = "done"
    /\ (\E a \in AgentSet : tasks[a].st \in {"created", "llm"}) =>
          /\ "progressive_filter_complete" \notin ui_sink
          /\ ~state.filtered_flight_results.some
    /\ "progressive_filter_complete" \in ui_sink =>
          /\ Launched # {}
          /\ state.parallel_search.status = "completed"
\* the filter has run after three tasks of which one failed
C8_Witness ==
    /\ "progressive_filter_complete" \in ui_sink
    /\ Launched = AgentSet
    /\ FailedTasks # {}
    /\ \A a \in AgentSet : tasks[a].st = "done"

\* componentsNeeded[category], true for every category when it is not given
Requested(st, c) == st.user_preferences.components_needed[c]

\* C9: once the coordinator has started the searches, a task and an entry of
\* parallel_search.agents exist for an agent exactly when its category is
\* requested.
C9_TasksMatchRequestedCategories ==
    state.parallel_search.status # "none" =>
        \A a \in AgentSet :
            /\ (a \in Launched) <=> Requested(state, CategoryOf(a))
            /\ (state.parallel_search.agents[a].status # "absent")
                   <=> Requested(state, CategoryOf(a))

\* C10: in the cart of a finished run a category is null exactly when it was
\* not requested.
C10_CartNullIffNotRequested ==
    pc = "END" =>
        \A c \in Categories : (c \in state.shopping_cart.none) <=> ~Requested(state, c)

\* the ids of the history, oldest first, and the ids of the stored snapshots
HistoryIds(st) == [i \in 1..Len(st.backtrack_history) |-> st.backtrack_history[i].snapshot_id]
StoredIds(st) == {st.context_snapshots[i].snapshot_id : i \in 1..Len(st.context_snapshots)}

\* C11: the history never holds more than 10 entries; a save into a full
\* history drops the oldest entry and its snapshot and appends the new one,
\* a save into a history with room only appends; so once 11 snapshots were
\* saved and none pruned, the first snapshot's id is stored no more.
C11_HistoryKeepsLastTen ==
    /\ [](/\ Len(state.backtrack_history) <= MaxHistory
          /\ (uid >= MaxHistory + 1 /\ ~snap.pruned) => 0 \notin StoredIds(state))
    /\ [][uid' = uid + 1 =>
            LET h == HistoryIds(state)
            IN  IF Len(h) = MaxHistory
                THEN /\ HistoryIds(state') = Append(Tail(h), uid)
                     /\ Head(h) \notin StoredIds(state')
                ELSE HistoryIds(state') = Append(h, uid)]_vars
\* the 11th save has evicted the first snapshot and kept the second
C11_Witness ==
    /\ uid = MaxHistory + 1
    /\ ~snap.pruned
    /\ Len(state.backtrack_history) = MaxHistory
    /\ 0 \notin StoredIds(state)
    /\ 1 \in StoredIds(state)
    /\ snap.last.op = "save"

RoundTripFields == {"user_preferences", "shopping_cart", "agent_status"}
\* a step that restores a snapshot for the first time since it was saved
FirstRestore ==
    /\ snap'.last.op \in {"restore", "backtrack"}
    /\ snap'.last.found
    /\ snap'.last.id \notin snap.restored

C14_SnapshotsKeepSavedContents ==
    \A i \in 1..Len(state.context_snapshots) :
        LET x == state.context_snapshots[i]
        IN  \A f \in SnapshotFields : x[f] = snap.saved[x.snapshot_id + 1][f]

\* the records of a sequence whose timestamp is not after t
NotAfter(s, t) == SelectSeq(s, LAMBDA x : x.timestamp <= t)
\* the UI-update list once the backtrack has added its own record to it
WithBacktrackRecord(st, t) ==
    LastN(Append(st.ui_updates, [type |-> "backtrack_executed", timestamp |-> t]),
          MaxUiUpdates)

\* C15 as stated: a backtrack to a stored snapshot sets the session's copied
\* entries to the snapshot's, keeps exactly the snapshots, history entries and
\* UI-update records whose timestamp is not after the snapshot's, the snapshot
\* itself among them, and removes every later one.
C15_BacktrackKeepsEveryEarlierRecord ==
    [][(snap'.last.op = "backtrack" /\ snap'.last.found) =>
         LET x == SnapshotOf(state, snap'.last.id)
             t == x.timestamp
         IN  /\ \A f \in SnapshotFields : state'[f] = x[f]
             /\ state'.cart_version = x.cart_version
             /\ state'.current_step = x.current_step
             /\ state'.context_snapshots = NotAfter(state.context_snapshots, t)
             /\ state'.backtrack_history = NotAfter(state.backtrack_history, t)
             /\ state'.ui_updates = NotAfter(state.ui_updates, t)
             /\ snap'.last.id \in StoredIds(state')]_vars

\* C15: a backtrack to a stored snapshot sets the session's copied entries to
\* the snapshot's and keeps exactly the snapshots and history entries whose
\* timestamp is not after the snapshot's, the snapshot itself among them; of
\* the UI-update records it keeps those not after the snapshot's timestamp
\* that the list of the last 50 still holds once the backtrack's own record
\* has been added to it.
C15_BacktrackPrunesLaterRecords ==
    [][(snap'.last.op = "backtrack" /\ snap'.last.found) =>
         LET x == SnapshotOf(state, snap'.last.id)
             t == x.timestamp
         IN  /\ \A f \in SnapshotFields : state'[f] = x[f]
             /\ state'.cart_version = x.cart_version
             /\ state'.current_step = x.current_step
             /\ state'.context_snapshots = NotAfter(state.context_snapshots, t)
             /\ state'.backtrack_history = NotAfter(state.backtrack_history, t)
             /\ state'.ui_updates = NotAfter(WithBacktrackRecord(state, clock), t)
             /\ \A i \in 1..Len(state'.ui_updates) : state'.ui_updates[i].timestamp <= t
             /\ snap'.last.id \in StoredIds(state')]_vars
\* a backtrack to the middle of a history, made with a full UI-update list,
\* has removed a later snapshot and the later records and kept earlier ones
C15_Witness ==
    /\ snap.last.op = "backtrack"
    /\ snap.last.found
    /\ Len(state.backtrack_history) >= 2
    /\ state.backtrack_history[Len(state.backtrack_history)].snapshot_id = snap.last.id
    /\ (uid - 1) \notin StoredIds(state)
    /\ state.ui_updates # <<>>
    /\ uid = MaxLongSaves
    /\ "backtrack_executed" \in ui_sink
    /\ \A i \in 1..Len(state.ui_updates) : state.ui_updates[i].type # "backtrack_executed"


\* C16: a restore or a backtrack finds the snapshot exactly when its id is in
\* the snapshot map; for an absent id (never given, evicted or pruned) the
\* outcome is not-found and the session is left as it was: every field, the
\* history, the snapshot map and the UI updates.
C16_AbsentIdChangesNothing ==
    [][(snap'.ops = snap.ops + 1 /\ snap'.last.op \in {"restore", "backtrack"}) =>
         /\ snap'.last.found <=> HasSnapshot(state, snap'.last.id)
         /\ ~snap'.last.found =>
              /\ state' = state
              /\ snap'.alias = snap.alias
              /\ ui_sink' = ui_sink
              /\ uid' = uid]_vars
\* a backtrack to the id given last, which an earlier backtrack had pruned,
\* has ended with not-found
C16_Witness ==
    /\ snap.last.op = "backtrack"
    /\ ~snap.last.found
    /\ snap.pruned
    /\ snap.last.id = uid - 1
    /\ snap.last.id >= 0
    /\ ~HasSnapshot(state, snap.last.id)
    /\ state.context_snapshots # <<>>


\* C17: a cart review whose validation reports an issue (a missing category,
\* an item without its name or price, a hotel check-in date that differs from
\* the flight's arrival date) is not followed by booking_execution, and no
\* booking method is called in a run after such a review.
C17_ValidationFailureBlocksBooking ==
    [][(pc = "shopping_cart" /\ ~validate_cart_completeness(state.shopping_cart).valid) =>
         /\ pc' # "booking_execution"
         /\ ~BookingExecutionRan']_vars


\* C18: a run in which a cart- or session-level error was recorded in the
\* session's error field (a cart validation failure, for one) ends with a
\* result whose success is false.
C18_RecordedErrorFailsRun ==
    (pc = "END" /\ state.error # "") => ~run(state).success


\* the items in the cart
CartItems(st) ==
    [c \in Categories |-> st.shopping_cart[c]]
\* the step is a restore or a backtrack of the session
RestoreStep ==
    snap'.ops = snap.ops + 1 /\ snap'.last.op \in {"restore", "backtrack"}

\* C19: every step that changes the items in the cart, other than a restore
\* or a backtrack (an agent writing its selection, _modify_cart_item,
\* _remove_cart_item, a cart review), leaves the session's cart_version
\* greater than it was.
C19_CartMutationIncreasesCartVersion ==
    [][(CartItems(state') # CartItems(state) /\ ~RestoreStep) =>
         state'.cart_version > state.cart_version]_vars


\* C20: in every state of a run the cart's total_cost is the sum of the
\* flight prices, hotel total costs and activity prices of the items in the
\* cart, and so is the total_cost of the cart of every stored snapshot.
C20_TotalCostMatchesItems ==
    /\ state.shopping_cart.total_cost = calculate_total_cost(state.shopping_cart)
    /\ \A i \in 1..Len(state.context_snapshots) :
         LET cart == state.context_snapshots[i].shopping_cart
         IN  cart.total_cost = calculate_total_cost(cart)


\* C21: in every state of a session every entry of cart_dependencies is an
\* entry the current cart gives rise to: it names a hotel or an activity now
\* in the cart, depends on the flight or the hotel now in the cart, and stands
\* for the current flight-hotel or hotel-activity relationship.
C21_NoStaleDependencies ==
    state.cart_dependencies \subseteq track_cart_dependencies(state.shopping_cart)


\* C22: _analyze_budget_compliance(total_cost, budget) answers within_budget
\* exactly when total_cost <= budget, slightly_over exactly when budget <
\* total_cost <= 1.05 budget, moderately_over exactly when 1.05 budget <
\* total_cost <= 1.15 budget, and significantly_over otherwise.
C22_BudgetThresholdsAreExact ==
    (call.fn = "analyze_budget_compliance" /\ call.returned) =>
        LET total_cost == call.args[1]
            budget == call.args[2]
        IN  call.result =
              IF total_cost <= budget THEN "within_budget"
              ELSE IF 100 * total_cost <= 105 * budget THEN "slightly_over"
              ELSE IF 100 * total_cost <= 115 * budget THEN "moderately_over"
              ELSE "significantly_over"


\* C25: _apply_cross_agent_filtering returns at most 5 flights, at most 5
\* hotels and at most 10 activities, and each returned item is one of the
\* candidates of the list that was passed in.
C25_FilterStagesCapTheirOutput ==
    (call.fn = "apply_cross_agent_filtering" /\ call.returned) =>
        /\ Len(call.result.flights) <= 5
        /\ Len(call.result.hotels) <= 5
        /\ Len(call.result.activities) <= 10
        /\ Range(call.result.flights) \subseteq Range(call.after.flight_results)
        /\ Range(call.result.hotels) \subseteq Range(call.after.lodging_results)
        /\ Range(call.result.activities) \subseteq Range(call.after.activities_results)
\* the filters have returned 5 flights, 5 hotels and 10 activities of lists in
\* which more candidates than that pass each filter
C25_Witness ==
    /\ call.fn = "apply_cross_agent_filtering"
    /\ call.returned
    /\ Len(call.result.flights) = 5
    /\ Len(call.result.hotels) = 5
    /\ Len(call.result.activities) = 10
    /\ Len(filter_flights_by_preferences_uncapped(
               call.args.flight_results, BasePreferences,
               BudgetOf(BasePreferences))) > 5
    /\ Len(call.args.lodging_results) = MaxCandidates
    /\ Len(call.args.activities_results) = MaxCandidates
    /\ \E i \in 1..MaxCandidates :
         call.args.flight_results[i] \notin Range(call.result.flights)

\* C26: when _apply_cross_agent_filtering has returned, the three candidate
\* lists passed to it hold the same items in the same order as before, each
\* item with the fields and values it had.
C26_FiltersLeaveInputsUnchanged ==
    (call.fn = "apply_cross_agent_filtering" /\ call.returned) =>
        call.after = call.args


\* the candidates of a list that come before x in descending priority
Better(items, key, x) == {y \in Range(items) : key[y] < key[x]}
\* the candidate of a list with the given id
ById(items, id) == CHOOSE x \in Range(items) : x.id = id

\* C23: the combinations pair only flights among the three with the highest
\* priority score and hotels among the three with the highest priority score,
\* so at most 9 pairs; at most 5 combinations are returned, in descending
\* compatibility_score and, for equal scores, ascending total_cost; and every
\* compatibility_score is at most 1.0.
C23_CombinationsOfTopThree ==
    (call.fn = "results_aggregation" /\ call.returned) =>
        LET combos == call.result.combinations
            flights == call.args.flights
            hotels == call.args.hotels
        IN  /\ Len(combos) <= 5
            /\ Cardinality({<<c.flight, c.hotel>> : c \in Range(combos)}) = Len(combos)
            /\ \A c \in Range(combos) :
                 /\ Cardinality(Better(flights, FlightPriority(flights),
                                       ById(flights, c.flight))) < 3
                 /\ Cardinality(Better(hotels, HotelPriority(hotels),
                                       ById(hotels, c.hotel))) < 3
                 /\ c.compatibility_score <= 1000 * BudgetOf(BasePreferences)
            /\ \A i \in 1..Len(combos) : \A j \in (i + 1)..Len(combos) :
                 \/ combos[i].compatibility_score > combos[j].compatibility_score
                 \/ /\ combos[i].compatibility_score = combos[j].compatibility_score
                    /\ combos[i].total_cost <= combos[j].total_cost
\* five combinations were returned of nine pairs, made of more than three
\* flights and hotels; a flight and a hotel outside the first three of the
\* lists passed in are among them, and two of equal score in the order of
\* their costs
C23_Witness ==
    /\ call.fn = "results_aggregation"
    /\ call.returned
    /\ Len(call.result.combinations) = 5
    /\ Len(call.args.flights) > 3
    /\ Len(call.args.hotels) > 3
    /\ \E c \in Range(call.result.combinations) : c.flight > 3 /\ c.hotel > 3
    /\ \E i \in 1..4 :
         call.result.combinations[i].total_cost
           > call.result.combinations[i + 1].total_cost
    /\ \E i \in 1..4 :
         /\ call.result.combinations[i].compatibility_score
              = call.result.combinations[i + 1].compatibility_score
         /\ call.result.combinations[i].total_cost
              < call.result.combinations[i + 1].total_cost


\* the nights of the stay
Nights(prefs) == prefs.end_date - prefs.start_date

\* C24: every combination's total_cost is its flight's price plus its hotel's
\* nightly rate times the nights of the stay plus the prices of its
\* activities, and its budget_remaining is the budget less that total.
C24_CombinationCostAddsUp ==
    (call.fn = "results_aggregation" /\ call.returned) =>
        \A c \in Range(call.result.combinations) :
            LET flight == ById(call.args.flights, c.flight)
                hotel == ById(call.args.hotels, c.hotel)
                activity_costs ==
                    SumBy(c.activities,
                          [id \in Range(c.activities) |->
                              ById(call.args.activities, id).price])
            IN  /\ c.total_cost = flight.price
                                    + hotel.nightly_rate * Nights(BasePreferences)
                                    + activity_costs
                /\ c.budget_remaining = BudgetOf(BasePreferences) - c.total_cost


\* C27: the session's ui_updates holds at most 50 events, in the order of
\* their emission, and they are the last ones emitted: while it holds fewer
\* than 50, every event handed to the UI so far is in it.
C27_LogHoldsLastEmitted ==
    LET log == state.ui_updates
    IN  /\ Len(log) <= MaxUiUpdates
        /\ \A i \in 1..Len(log) : \A j \in i..Len(log) :
             log[i].timestamp <= log[j].timestamp
        /\ Len(log) < MaxUiUpdates =>
             \A type \in ui_sink : \E i \in 1..Len(log) : log[i].type = type


\* the map breaks what a session must satisfy, in the words of the spec
ViolatesSessionInvariants(m) ==
    \/ \E f \in {"conversation_id", "automation_level", "current_step",
                 "user_preferences", "shopping_cart", "agent_status"} :
         f \notin DOMAIN m
    \/ m.automation_level \notin 1..4
    \/ \E f \in {"flights", "hotels", "activities", "total_cost"} :
         f \notin DOMAIN m.shopping_cart

\* C28: serializing a session leaves the session as it was and yields its
\* fields under an envelope _metadata with serialized_at and version;
\* deserializing that map yields a session equal to the serialized one in every
\* field, the envelope removed; and deserializing a map that violates the
\* session invariants raises instead of returning a session.
C28_SerializationRoundTrips ==
    /\ (call.fn = "serialize_conversation_state" /\ call.returned) =>
          /\ call.after.state = call.args.state
          /\ DOMAIN call.result = DOMAIN call.args.state \cup {"_metadata"}
          /\ {"serialized_at", "version"} \subseteq DOMAIN call.result["_metadata"]
    /\ call.fn = "deserialize_conversation_state" =>
          /\ call.args.damage.kind = "none" =>
                /\ ~call.result.raised
                /\ call.result.state = call.args.state
          /\ ViolatesSessionInvariants(Without(call.args.serialized_data, {"_metadata"})) =>
                call.result.raised
\* a session with a filled cart and several snapshots has come back equal
C28_Witness ==
    /\ call.fn = "deserialize_conversation_state"
    /\ call.args.damage.kind = "none"
    /\ ~call.result.raised
    /\ call.result.state = call.args.state
    /\ "_metadata" \in DOMAIN call.args.serialized_data
    /\ call.args.state.shopping_cart.flights # <<>>
    /\ Len(call.args.state.context_snapshots) > 2
    /\ call.args.state.ui_updates # <<>>


\* the seconds the slowest agent took, and the seconds of all agents together
SlowestAgent(seconds) ==
    CHOOSE t \in {seconds[a] : a \in AgentSet} : \A a \in AgentSet : seconds[a] <= t
AllAgents(seconds) ==
    seconds["flight_agent"] + seconds["lodging_agent"] + seconds["activities_agent"]

\* C29: the duration the coordinator records, completion_time - start_time, is
\* at most the duration of its slowest agent, whatever the sum of the agents'
\* durations.
C29_DurationOfSlowestAgent ==
    (call.fn = "parallel_search_coordinator" /\ call.returned) =>
        /\ call.after.completion_time - call.after.start_time
             <= SlowestAgent(call.args.llm_seconds)
        /\ call.result.total_time
             = call.after.completion_time - call.after.start_time
\* agents of 1, 2 and 3 seconds were done after 3 seconds, not 6
C29_Witness ==
    /\ call.fn = "parallel_search_coordinator"
    /\ call.returned
    /\ call.args.llm_seconds["flight_agent"] = 1
    /\ call.args.llm_seconds["lodging_agent"] = 2
    /\ call.args.llm_seconds["activities_agent"] = 3
    /\ call.result.total_time = 3
    /\ call.result.total_time < AllAgents(call.args.llm_seconds)


\* C30: from cart review the run goes to the one search agent of the category
\* to modify, and from that agent back to cart review; so the run ends only
\* complete, after booking_execution and itinerary_generation, or with an
\* error recorded.
C30_ModifyReturnsToCartReview ==
    [][ /\ (pc = "shopping_cart" /\ pc' # pc) =>
              pc' \in AgentSet \cup {"booking_execution"}
        /\ (pc \in AgentSet /\ pc' # pc) => pc' = "shopping_cart"
        /\ (pc # "END" /\ pc' = "END") =>
              \/ pc = "itinerary_generation" /\ state'.current_step = "complete"
              \/ state'.error # "" ]_vars


\* the stages of the state machine
StageNodes ==
    {"welcome", "collect_preferences", "orchestrator", "parallel_search_coordinator",
     "progressive_filter", "results_aggregator", "present_options",
     "preselect_options", "auto_select_with_review", "auto_book", "shopping_cart",
     "booking_execution", "itinerary_generation"}

\* C31: every step by which the run leaves a stage for the next one hands a
\* progress event to the UI and saves a snapshot.
C31_TransitionEmitsAndSaves ==
    [][ (pc \in StageNodes /\ pc' # pc /\ pc' # "END") =>
            /\ ui_sink' # ui_sink
            /\ uid' > uid
            /\ state'.backtrack_history # state.backtrack_history ]_vars


\* C32: in every interleaving of the coordinator's tasks, the context the
\* lodging task searches with holds no flight arrival and the one of the
\* activities task no hotel: no task is handed a context.  Only an agent run
\* again on its own, after cart review, searches with one.
C32_NoEnrichmentInParallel ==
    /\ \A a \in AgentSet : tasks[a].ctx = ""
    /\ rerun.ctx # "" => pc \in {"lodging_agent", "activities_agent"}
\* the lodging agent, run again after cart review, awaits the language model
\* with the arrival of the flight in the cart, after tasks that had searched
\* without it while the flight task had its results
C32_Witness ==
    /\ pc = "lodging_agent"
    /\ rerun.st = "llm"
    /\ rerun.ctx # ""
    /\ tasks["lodging_agent"].st = "done"
    /\ tasks["lodging_agent"].ctx = ""
    /\ tasks["flight_agent"].st = "done"


\* C33: of two sessions run on one orchestrator, every event in the log of a
\* session was emitted for that session and carries its conversation id.
C33_SessionsKeepTheirEvents ==
    call.fn = "run" =>
        \A s \in SessionIds :
            \A i \in 1..Len(call.after.sessions[s].ui_updates) :
                LET update == call.after.sessions[s].ui_updates[i]
                IN  /\ update.emitted_for = s
                    /\ update.conversation_id = call.after.sessions[s].conversation_id


\* C34: no operation on a session (cart review, modify, remove, snapshot save,
\* restore, backtrack) leaves the session's cart_version smaller than it was.
C34_CartVersionNeverDecreases ==
    [][state'.cart_version >= state.cart_version]_vars

\* C35: every candidate _apply_cross_agent_filtering returns is within its
\* category's share of the budget: a flight costs at most 40% of it, a hotel
\* at most 35% and an activity at most 25%, whatever the other lists hold.
C35_OutputWithinBudgetShares ==
    (call.fn = "apply_cross_agent_filtering" /\ call.returned) =>
        LET budget == BudgetOf(FilterState.user_preferences)
        IN  /\ \A f \in Range(call.result.flights) : 100 * f.price <= 40 * budget
            /\ \A h \in Range(call.result.hotels) : 100 * HotelPrice(h) <= 35 * budget
            /\ \A x \in Range(call.result.activities) : 100 * x.price <= 25 * budget

\* list x is in descending score and, where scores are equal, ascending price
RankedByScoreThenPrice(items, score, price) ==
    \A i, j \in 1..Len(items) :
        i < j => /\ score[items[i]] >= score[items[j]]
                 /\ score[items[i]] = score[items[j]]
                      => price[items[i]] <= price[items[j]]

\* C36: each list the prioritizers return is in descending priority_score,
\* and two candidates of equal priority_score are in ascending price order.
C36_PrioritizedByScoreThenPrice ==
    (call.fn = "prioritize" /\ call.returned) =>
        /\ RankedByScoreThenPrice(
               call.result.flights,
               [x \in Range(call.result.flights) |-> flight_priority_score(x)],
               [x \in Range(call.result.flights) |-> x.price])
        /\ RankedByScoreThenPrice(
               call.result.hotels,
               [x \in Range(call.result.hotels) |-> hotel_priority_score(x)],
               [x \in Range(call.result.hotels) |-> HotelPrice(x)])
        /\ RankedByScoreThenPrice(
               call.result.activities,
               [x \in Range(call.result.activities) |-> activity_priority_score(x)],
               [x \in Range(call.result.activities) |-> x.price])

\* C37: the priority_score of every candidate that has passed the filters
\* and been prioritized lies between 0 and 1.
C37_ScoreWithinUnitInterval ==
    (call.fn = "prioritize" /\ call.returned) =>
        /\ \A x \in Range(call.result.flights) :
              flight_priority_score(x) \in 0..ScoreUnit
        /\ \A x \in Range(call.result.hotels) :
              hotel_priority_score(x) \in 0..ScoreUnit
        /\ \A x \in Range(call.result.activities) :
              activity_priority_score(x) \in 0..ScoreUnit

\* C38: when _parallel_search_coordinator has joined its tasks, the
\* agent_status of each of the three agents it launched is complete or error.
C38_JoinedAgentsAreSettled ==
    (pc = "progressive_filter" /\ \A a \in AgentSet : tasks[a].st = "done") =>
        \A a \in AgentSet : state.agent_status[a] \in {"complete", "error"}

\* C39: when _parallel_search_coordinator has joined its tasks, each agent
\* that returned its state is recorded as completed in parallel_search.agents,
\* and the candidates it left in search_results are the category's raw
\* results that the filters are given.
C39_CoordinatorFeedsTheFilters ==
    (pc = "progressive_filter" /\ \A a \in AgentSet : tasks[a].st = "done") =>
        /\ \A a \in AgentSet : state.parallel_search.agents[a].status = "completed"
        /\ state.flight_results = tasks["flight_agent"].fr.search_results
        /\ state.lodging_results = tasks["lodging_agent"].fr.search_results
        /\ state.activities_results = tasks["activities_agent"].fr.search_results

\* C40: a run is marked current_step = "complete" and output status
\* "completed" only when _booking_execution has gone past its safety
\* checkpoint and recorded the bookings of the cart in output_data.
C40_CompletedOnlyAfterBooking ==
    (state.current_step = "complete" /\ state.output_data.status = "completed") =>
        state.output_data.booking_status.stored

====
